---- MODULE Spec2Model ----
(***************************************************************************)
(* Resilience and dynamic configuration of the rental platform backend:    *)
(*   - app/core/circuit_breaker.py : CircuitBreaker, circuit_breaker,      *)
(*     with_retry, resilient                                               *)
(*   - app/core/cache.py           : CacheLayer                            *)
(*   - app/services/feature_flag_service.py : FeatureFlagService           *)
(* Specifications of the module:                                           *)
(*   SpecBreaker   concurrent calls through circuit_breaker(name) on one   *)
(*                 event loop (the wrapped coroutine returns, raises or is *)
(*                 cancelled)                                              *)
(*   SpecResilient calls through resilient(name, max_attempts), one after  *)
(*                 another, with the retry loop and its sleeps             *)
(*   SpecFlags     concurrent feature flag requests over the cache and the *)
(*                 feature_flags table                                     *)
(*   SpecFlagsSeq  the same requests issued one after another              *)
(*   SpecRetry     calls through resilient with the default breaker, each  *)
(*                 running its retry loop and backoff sleeps to the end    *)
(*   SpecRegistry  the registry of breakers: get_circuit_breaker, the      *)
(*                 wrapper's first reference, get_circuit_health           *)
(*   SpecCache     CacheLayer.get / set / delete / invalidate_pattern over *)
(*                 a backend that may stop answering                       *)
(***************************************************************************)
EXTENDS Integers, Sequences, FiniteSets, TLC

\* ------------------------------------------------------------------ bounds
NumCalls == 2        \* call slots running concurrently on the event loop
MaxTime == 5         \* the clock stops advancing here
MaxAttempts == 3     \* largest max_attempts handed to resilient
MaxRetryAttempts == 6  \* largest max_attempts of the retry runs
MaxRetryTime == 26   \* the clock of the retry runs stops advancing here
MaxRegistryTime == 3 \* the clock of the registry runs stops advancing here

NumReqs == 2         \* flag requests running concurrently
MaxTicks == 2        \* clock ticks of the flag service's run

Calls == 1..NumCalls

\* names of breakers: "x" is the name the decorated operation is wrapped
\* under, the others are only looked up with get_circuit_breaker
BreakerNames == {"x", "y"}
PeerNames == BreakerNames \ {"x"}
Reqs == 1..NumReqs
Names == {"x"}

\* configurations a breaker record may be created with
Thresholds == {1, 2}
Timeouts == {1, 2}
HalfOpenMax == {1, 2}

\* (failure_threshold, recovery_timeout, half_open_max_calls) keyword
\* arguments a reference to a breaker is made with
Configs == {<<1, 1, 1>>, <<2, 2, 2>>}

\* with_retry defaults (resilient passes max_attempts only)
initial_delay == 1
max_delay == 10
exponential_base == 2

SetMax(S) == CHOOSE x \in S : \A y \in S : y <= x
Min(a, b) == IF a <= b THEN a ELSE b

VARIABLES
    \* CircuitBreaker record
    failure_threshold, recovery_timeout, half_open_max_calls,
    state, failure_count, success_count, last_failure_time, half_open_calls,
    \* time.time()
    now,
    \* one record per call in progress through resilient(...)
    call,
    \* what the most recently finished call handed to its caller
    last,
    \* history of the run (not read by any action's guard)
    consecFail, trialSucc, windowAdmitted, trace,
    \* _circuit_breakers: its keys, and the records of the names other than
    \* "x" (the record of "x" is the CircuitBreaker record above)
    registered, peers,
    \* what the last operation called on its own returned
    \* (get_circuit_breaker, get_circuit_health, CacheLayer.get / set / ...)
    reply,
    \* CacheLayer: redis_client is set; the backend answers; its keys
    connected, redisUp, redis,
    \* feature_flags table (committed rows), row locks of open transactions
    table, rowLock,
    \* flag requests in progress, the last one finished, the wall clock
    req, flast, clock,
    \* history of the flag requests (not read by any action's guard)
    settled, faulted, scn,
    \* the HTTP request being served by a router, or the last response
    http

cbVars == <<failure_threshold, recovery_timeout, half_open_max_calls,
            state, failure_count, success_count, last_failure_time,
            half_open_calls>>
histVars == <<consecFail, trialSucc, windowAdmitted, trace>>
regVars == <<registered, peers, reply>>
breakerVars == <<cbVars, now, call, last, histVars, regVars>>
cacheVars == <<connected, redisUp, redis>>
flagHist == <<settled, faulted, scn>>
flagVars == <<cacheVars, table, rowLock, req, flast, clock, flagHist, http>>
vars == <<breakerVars, flagVars>>

\* ------------------------------------------------------- CircuitBreaker
\* _should_allow_request: the answer
MutAllowedStrict ==
    \/ state = "CLOSED"
    \/ state = "OPEN" /\ now - last_failure_time > recovery_timeout
    \/ state = "HALF_OPEN" /\ half_open_calls < half_open_max_calls

MutHalfOpenDenies ==
    \/ state = "CLOSED"
    \/ state = "OPEN" /\ now - last_failure_time >= recovery_timeout

Allowed ==
    \/ state = "CLOSED"
    \/ state = "OPEN" /\ now - last_failure_time >= recovery_timeout
    \/ state = "HALF_OPEN" /\ half_open_calls < half_open_max_calls

MutHalfOpenKeepsCalls ==
    IF state = "OPEN" /\ Allowed
    THEN /\ state' = "HALF_OPEN"
         /\ UNCHANGED <<failure_count, success_count, last_failure_time,
                        half_open_calls>>
    ELSE UNCHANGED <<state, failure_count, success_count, last_failure_time,
                     half_open_calls>>

MutDeniedPostpones ==
    IF state = "OPEN" /\ Allowed
    THEN /\ state' = "HALF_OPEN"
         /\ half_open_calls' = 0
         /\ UNCHANGED <<failure_count, success_count, last_failure_time>>
    ELSE /\ last_failure_time' = IF Allowed THEN last_failure_time ELSE now
         /\ UNCHANGED <<state, failure_count, success_count, half_open_calls>>

\* _should_allow_request: its effect on the record (_transition_to_half_open)
ShouldAllowRequest ==
    IF state = "OPEN" /\ Allowed
    THEN /\ state' = "HALF_OPEN"
         /\ half_open_calls' = 0
         /\ UNCHANGED <<failure_count, success_count, last_failure_time>>
    ELSE UNCHANGED <<state, failure_count, success_count, last_failure_time,
                     half_open_calls>>

MutCloseLate == success_count + 1 > half_open_max_calls

ClosesNow == success_count + 1 >= half_open_max_calls

MutSuccessKeepsFailures ==
    /\ IF state = "HALF_OPEN"
       THEN /\ half_open_calls' = half_open_calls + 1
            /\ IF ClosesNow
               THEN /\ state' = "CLOSED"
                    /\ failure_count' = 0
                    /\ success_count' = 0
               ELSE /\ success_count' = success_count + 1
                    /\ UNCHANGED <<state, failure_count>>
       ELSE UNCHANGED <<state, failure_count, success_count, half_open_calls>>
    /\ UNCHANGED last_failure_time

RecordSuccess ==
    /\ IF state = "HALF_OPEN"
       THEN /\ half_open_calls' = half_open_calls + 1
            /\ IF ClosesNow
               THEN /\ state' = "CLOSED"
                    /\ failure_count' = 0
                    /\ success_count' = 0
               ELSE /\ success_count' = success_count + 1
                    /\ UNCHANGED <<state, failure_count>>
       ELSE /\ failure_count' = 0
            /\ UNCHANGED <<state, success_count, half_open_calls>>
    /\ UNCHANGED last_failure_time

MutOpensAtNext == failure_count + 1 >= failure_threshold + 1

MutOpensAbove == failure_count + 1 > failure_threshold

OpensNow == failure_count + 1 >= failure_threshold

MutReopenKeepsSuccesses ==
    /\ failure_count' = failure_count + 1
    /\ last_failure_time' = now
    /\ IF state = "HALF_OPEN"
       THEN state' = "OPEN" /\ UNCHANGED success_count
       ELSE IF state = "CLOSED" /\ OpensNow
            THEN state' = "OPEN" /\ UNCHANGED success_count
            ELSE UNCHANGED <<state, success_count>>
    /\ UNCHANGED half_open_calls

MutLateFailureKeepsTime ==
    /\ failure_count' = failure_count + 1
    /\ last_failure_time' = IF state = "OPEN" THEN last_failure_time ELSE now
    /\ IF state = "HALF_OPEN"
       THEN state' = "OPEN" /\ success_count' = 0
       ELSE IF state = "CLOSED" /\ OpensNow
            THEN state' = "OPEN" /\ UNCHANGED success_count
            ELSE UNCHANGED <<state, success_count>>
    /\ UNCHANGED half_open_calls

RecordFailure ==
    /\ failure_count' = failure_count + 1
    /\ last_failure_time' = now
    /\ IF state = "HALF_OPEN"
       THEN state' = "OPEN" /\ success_count' = 0
       ELSE IF state = "CLOSED" /\ OpensNow
            THEN state' = "OPEN" /\ UNCHANGED success_count
            ELSE UNCHANGED <<state, success_count>>
    /\ UNCHANGED half_open_calls


\* ------------------------------------------- history of the breaker's run
CapFail == SetMax(Thresholds)
CapSucc == SetMax(HalfOpenMax)
CapAdmit == SetMax(HalfOpenMax) + 1

\* the run "two failed calls, a call at once, a call after the timeout
\* that succeeds" on a breaker configured as TraceConfig: trace tells how
\* far the calls issued so far have followed it ("off": they left it)
TraceConfig == <<2, 1, 1>>

\* a call is issued
TraceIssue ==
    IF \E c \in Calls : call[c].pc # "idle" THEN "off"
    ELSE IF trace = "start" THEN "c1"
    ELSE IF trace = "f1" THEN "c2"
    ELSE IF trace = "f2" /\ now = last_failure_time THEN "c3"
    ELSE IF trace = "c3" /\ now - last_failure_time >= TraceConfig[2] THEN "c4"
    ELSE "off"

\* an admission check was answered `ok`
HistAdmission(ok) ==
    /\ UNCHANGED consecFail
    /\ trace' = TraceIssue
    /\ IF ok /\ state = "OPEN"
       THEN trialSucc' = 0 /\ windowAdmitted' = 1
       ELSE IF ok /\ state = "HALF_OPEN"
            THEN /\ windowAdmitted' = Min(windowAdmitted + 1, CapAdmit)
                 /\ UNCHANGED trialSucc
            ELSE UNCHANGED <<trialSucc, windowAdmitted>>

HistSuccess ==
    /\ trace' = IF trace = "c4" THEN "done" ELSE "off"
    /\ consecFail' = 0
    /\ trialSucc' = IF trialSucc >= 0 THEN Min(trialSucc + 1, CapSucc) ELSE -1
    /\ windowAdmitted' = IF state' = "HALF_OPEN" THEN windowAdmitted ELSE 0

HistFailure ==
    /\ trace' = IF trace = "c1" THEN "f1"
                ELSE IF trace = "c2" THEN "f2" ELSE "off"
    /\ consecFail' = Min(consecFail + 1, CapFail)
    /\ trialSucc' = -1
    /\ windowAdmitted' = 0

\* ------------------------------------- resilient(name, max_attempts, ...)
\* resilient(...)(func) is circuit_breaker(...)(with_retry(max_attempts)(func));
\* circuit_breaker(...)(func) alone behaves as max_attempts = 1.
\* last_exception is the number of the invocation whose exception it holds
\* (0 for None); invoked, failed and slept count the invocations of the
\* operation, those that raised, and the retry sleeps begun; trial (history)
\* tells that the call was admitted in the half-open window now open
IdleCall ==
    [pc |-> "idle", max_attempts |-> 1, fallback |-> FALSE, attempt |-> 0,
     delay |-> 0, wake |-> 0, last_exception |-> 0,
     invoked |-> 0, failed |-> 0, slept |-> 0, trial |-> FALSE]

\* the calls in progress when call c is admitted: an admission that opens
\* a half-open window ends the window the others were admitted in
Admit(c, rec) ==
    [d \in Calls |->
       IF d = c THEN [rec EXCEPT !.trial = (state' = "HALF_OPEN")]
       ELSE IF state = "OPEN" THEN [call[d] EXCEPT !.trial = FALSE]
       ELSE call[d]]

\* error is the number of the invocation whose exception reached the
\* caller (0: the call did not end with an exception of the operation)
NoCall ==
    [kind |-> "none", admitted |-> FALSE, fallback |-> FALSE, invoked |-> 0,
     slept |-> 0, recorded |-> 0, error |-> 0]

\* what call c hands to its caller when it ends as `kind`, having executed
\* `n` of _record_success / _record_failure
Finished(c, kind, n) ==
    [kind |-> kind, admitted |-> call[c].pc # "idle",
     fallback |-> call[c].fallback, invoked |-> call[c].invoked,
     slept |-> call[c].slept, recorded |-> n, error |-> 0]

\* circuit_breaker.wrapper up to the first suspension: the admission check,
\* then either the fallback / CircuitBreakerError or the first attempt of
\* the retried operation.
MutDeniedNoFallback(fb) == "CircuitBreakerError"

\* admission denied: the fallback's result when one was supplied, else the
\* CircuitBreakerError
DeniedOutcome(fb) == IF fb THEN "fallback" ELSE "CircuitBreakerError"

StartCall(c, ma, fb) ==
    /\ call[c].pc = "idle"
    /\ ShouldAllowRequest
    /\ HistAdmission(Allowed)
    /\ IF Allowed
       THEN /\ call' = Admit(c,
                [IdleCall EXCEPT !.pc = "op", !.max_attempts = ma,
                                 !.fallback = fb,
                                 !.delay = initial_delay, !.invoked = 1])
            /\ UNCHANGED last
       ELSE /\ last' = [NoCall EXCEPT !.fallback = fb,
                                      !.kind = DeniedOutcome(fb)]
            /\ UNCHANGED call
    /\ UNCHANGED <<failure_threshold, recovery_timeout, half_open_max_calls,
                   now, flagVars, regVars>>

\* the awaited operation returns: with_retry returns it, the breaker wrapper
\* records the success and returns the result
OpReturns(c) ==
    /\ call[c].pc = "op"
    /\ RecordSuccess
    /\ HistSuccess
    /\ last' = Finished(c, "result", 1)
    /\ call' = [call EXCEPT ![c] = IdleCall]
    /\ UNCHANGED <<failure_threshold, recovery_timeout, half_open_max_calls,
                   now, flagVars, regVars>>

MutAttemptsRemainLoose(c) == call[c].attempt < call[c].max_attempts

\* with_retry: attempts remain after this failed one
AttemptsRemain(c) == call[c].attempt < call[c].max_attempts - 1

MutSleepUncapped(c) == call[c].delay

\* with_retry: the argument of asyncio.sleep
SleepFor(c) == Min(call[c].delay, max_delay)

MutFirstException(c) == 1

\* with_retry: `last_exception = e`, the exception of the invocation that
\* has just raised
LastException(c) == call[c].invoked

MutFailedFallsBack(c) == IF call[c].fallback THEN "fallback" ELSE "error"

\* circuit_breaker.wrapper's `except Exception`: after _record_failure the
\* exception is re-raised, whether or not a fallback was supplied
FailedOutcome(c) == "error"

MutAttemptRecordsFailure == RecordFailure

\* with_retry's `except Exception` with attempts left: the exception is
\* kept and the loop sleeps; the breaker record is not touched
AttemptRecord ==
    UNCHANGED <<state, failure_count, success_count, last_failure_time,
                half_open_calls>>

\* the awaited operation raises an Exception: with_retry sleeps and retries,
\* or raises last_exception to the breaker wrapper, which records the
\* failure and re-raises the exception it caught
OpRaises(c) ==
    /\ call[c].pc = "op"
    /\ IF AttemptsRemain(c)
       THEN /\ call' = [call EXCEPT ![c].pc = "sleep",
                            ![c].last_exception = LastException(c),
                            ![c].failed = @ + 1,
                            ![c].wake = now + SleepFor(c),
                            ![c].delay = @ * exponential_base,
                            ![c].slept = @ + 1]
            /\ AttemptRecord
            /\ UNCHANGED <<failure_threshold, recovery_timeout,
                           half_open_max_calls, last, histVars>>
       ELSE /\ RecordFailure
            /\ HistFailure
            /\ last' = [Finished(c, FailedOutcome(c), 1)
                           EXCEPT !.error = LastException(c)]
            /\ call' = [call EXCEPT ![c] = IdleCall]
            /\ UNCHANGED <<failure_threshold, recovery_timeout,
                           half_open_max_calls>>
    /\ UNCHANGED <<now, flagVars, regVars>>

\* asyncio.sleep is over: the next attempt of the loop invokes the operation
Wake(c) ==
    /\ call[c].pc = "sleep"
    /\ now >= call[c].wake
    /\ call' = [call EXCEPT ![c].pc = "op", ![c].attempt = @ + 1,
                            ![c].invoked = @ + 1]
    /\ UNCHANGED <<cbVars, now, last, histVars, flagVars, regVars>>

\* the host scheduler cancels the task while it awaits the operation or the
\* retry sleep: CancelledError is a BaseException, which neither
\* `except Exception` (with_retry, circuit_breaker.wrapper) catches
Cancel(c) ==
    /\ call[c].pc \in {"op", "sleep"}
    /\ last' = Finished(c, "cancelled", 0)
    /\ call' = [call EXCEPT ![c] = IdleCall]
    /\ trace' = "off"
    /\ UNCHANGED <<cbVars, now, consecFail, trialSucc, windowAdmitted,
                   flagVars, regVars>>

\* time.time() advances; no timer of the breaker runs
Tick ==
    /\ now < MaxTime
    /\ now' = now + 1
    /\ UNCHANGED <<cbVars, call, last, histVars, flagVars, regVars>>

\* time.time() advances while the call sleeps between two attempts
RetryTick ==
    /\ call[1].pc = "sleep"
    /\ now < call[1].wake
    /\ now < MaxRetryTime
    /\ now' = now + 1
    /\ UNCHANGED <<cbVars, call, last, histVars, flagVars, regVars>>

\* time.time() advances during the registry runs
RegistryTick ==
    /\ now < MaxRegistryTime
    /\ now' = now + 1
    /\ UNCHANGED <<cbVars, call, last, histVars, flagVars, regVars>>

\* --------------------------------------------------- _circuit_breakers
\* defaults of the CircuitBreaker dataclass
DefaultThreshold == 5
DefaultTimeout == 30
DefaultHalfOpenMax == 3

\* CircuitBreaker(name=name, **kwargs)
NewRecord(ft, rt, hm) ==
    [failure_threshold |-> ft, recovery_timeout |-> rt,
     half_open_max_calls |-> hm, state |-> "CLOSED", failure_count |-> 0,
     success_count |-> 0, last_failure_time |-> 0, half_open_calls |-> 0]

\* _circuit_breakers[n], for a registered name n
Record(n) ==
    IF n = "x"
    THEN [failure_threshold |-> failure_threshold,
          recovery_timeout |-> recovery_timeout,
          half_open_max_calls |-> half_open_max_calls, state |-> state,
          failure_count |-> failure_count, success_count |-> success_count,
          last_failure_time |-> last_failure_time,
          half_open_calls |-> half_open_calls]
    ELSE peers[n]

\* cfg: the keyword arguments of the call, at: the time it was made
NoReply ==
    [op |-> "none", name |-> "", cfg |-> <<0, 0, 0>>, at |-> 0,
     value |-> "None"]

MutAlwaysCreates(n) == TRUE

\* `name not in _circuit_breakers`
NotRegistered(n) == n \notin registered

\* get_circuit_breaker: the record is created on the first reference only
GetOrCreate(n, ft, rt, hm) ==
    IF NotRegistered(n)
    THEN /\ registered' = registered \cup {n}
         /\ IF n = "x"
            THEN /\ failure_threshold' = ft
                 /\ recovery_timeout' = rt
                 /\ half_open_max_calls' = hm
                 /\ state' = "CLOSED"
                 /\ failure_count' = 0
                 /\ success_count' = 0
                 /\ last_failure_time' = 0
                 /\ half_open_calls' = 0
                 /\ UNCHANGED peers
            ELSE /\ peers' = [peers EXCEPT ![n] = NewRecord(ft, rt, hm)]
                 /\ UNCHANGED cbVars
    ELSE UNCHANGED <<cbVars, registered, peers>>

\* get_circuit_breaker(n, failure_threshold=ft, recovery_timeout=rt,
\* half_open_max_calls=hm), called on its own
GetCircuitBreaker(n, ft, rt, hm) ==
    /\ GetOrCreate(n, ft, rt, hm)
    /\ reply' = [op |-> "get_circuit_breaker", name |-> n,
                 cfg |-> <<ft, rt, hm>>, at |-> now, value |-> Record(n)']
    /\ UNCHANGED <<now, call, last, histVars, flagVars>>

MutHealthAllNames == BreakerNames

\* `for name, cb in _circuit_breakers.items()`
HealthNames == registered

\* get_circuit_health()
GetCircuitHealth ==
    /\ reply' = [op |-> "get_circuit_health", name |-> "",
                 cfg |-> <<0, 0, 0>>, at |-> now,
                 value |-> [n \in HealthNames |->
                     [state |-> Record(n).state,
                      failures |-> Record(n).failure_count,
                      last_failure |-> Record(n).last_failure_time]]]
    /\ UNCHANGED <<cbVars, now, call, last, histVars, registered, peers,
                   flagVars>>

\* circuit_breaker(name="x", failure_threshold=ft, recovery_timeout=rt,
\* fallback=fb)(func): the wrapper looks the record up, creating it on the
\* first call (admitted: a new record is CLOSED), then goes on as StartCall
WrapperCall(c, ft, rt, fb) ==
    IF NotRegistered("x")
    THEN /\ call[c].pc = "idle"
         /\ GetOrCreate("x", ft, rt, DefaultHalfOpenMax)
         /\ call' = [call EXCEPT ![c] =
                [IdleCall EXCEPT !.pc = "op", !.fallback = fb,
                                 !.delay = initial_delay, !.invoked = 1]]
         /\ UNCHANGED <<now, last, histVars, reply, flagVars>>
    ELSE StartCall(c, 1, fb)

\* ----------------------------------------------------------- CacheLayer
\* Python values are written "True", "False", "None", "int:0", "list:[]",
\* "list:[1, 2]", "tuple:(1, 2)"; Redis holds JSON text and answers "nil"
\* for a missing key.
JsonDumps(v) ==
    CASE v = "True" -> "true"
      [] v = "False" -> "false"
      [] v = "int:0" -> "0"
      [] v = "list:[]" -> "[]"
      [] v = "list:[1, 2]" -> "[1, 2]"
      [] v = "tuple:(1, 2)" -> "[1, 2]"
      [] OTHER -> "null"

JsonLoads(t) ==
    CASE t = "true" -> "True"
      [] t = "false" -> "False"
      [] t = "0" -> "int:0"
      [] t = "[]" -> "list:[]"
      [] t = "[1, 2]" -> "list:[1, 2]"
      [] OTHER -> "None"

\* truth value of a Python object or of a reply of the Redis client
Truthy(value) ==
    value \notin {"nil", "", "None", "False", "int:0", "list:[]"}

\* bool(cached_state)
PyBool(v) == IF Truthy(v) THEN "True" ELSE "False"

\* f"flag:{name}"
FlagKey(n) == <<"flag", n>>
Keys == {FlagKey(n) : n \in Names} \cup {<<"user", "1">>}

NoEntry == [val |-> "nil", exp |-> 0]

\* redis_client.get(key): a key past its expiry is gone
RedisGet(key) ==
    IF redis[key].val # "nil" /\ clock < redis[key].exp
    THEN redis[key].val ELSE "nil"

MutCacheGetUnguarded(key) ==
    IF ~connected THEN "None"
    ELSE IF ~redisUp THEN "ConnectionError"
         ELSE IF Truthy(RedisGet(key)) THEN JsonLoads(RedisGet(key))
              ELSE "None"

MutCacheGetStale(key) ==
    IF ~connected THEN "None"
    ELSE IF redis[key].val # "nil" THEN JsonLoads(redis[key].val)
         ELSE "None"

MutCacheGetFalsyMiss(key) ==
    IF ~connected \/ ~redisUp THEN "None"
    ELSE IF Truthy(JsonLoads(RedisGet(key))) THEN JsonLoads(RedisGet(key))
         ELSE "None"

\* CacheLayer.get
CacheGet(key) ==
    IF ~connected THEN "None"
    ELSE IF ~redisUp THEN "None"
         ELSE IF Truthy(RedisGet(key)) THEN JsonLoads(RedisGet(key))
              ELSE "None"

MutSetIgnoresClient == redisUp

\* CacheLayer.set: its return value
CacheSetOk == connected /\ redisUp

MutCacheSetNoExpiry(key, v, ttl) ==
    redis' = IF CacheSetOk
             THEN [redis EXCEPT ![key] = [val |-> JsonDumps(v),
                                          exp |-> clock + ttl + ttl]]
             ELSE redis

\* CacheLayer.set: redis_client.setex(key, ttl, json.dumps(value))
CacheSet(key, v, ttl) ==
    redis' = IF CacheSetOk
             THEN [redis EXCEPT ![key] = [val |-> JsonDumps(v),
                                          exp |-> clock + ttl]]
             ELSE redis

\* ---- CacheLayer operations called on their own: what the call was (cop,
\* key, arg, ttl), when it was made, what it returned, and how many keys
\* the backend reported as removed
CacheReply(op, key, v, ttl, result) ==
    [cop |-> op, key |-> key, arg |-> v, ttl |-> ttl, time |-> clock,
     result |-> result, removed |-> 0]

NoCacheReply == CacheReply("none", <<"", "">>, "None", 0, "None")

\* cache.get(key)
CacheGetOp(key) ==
    /\ reply' = CacheReply("get", key, "None", 0, CacheGet(key))
    /\ UNCHANGED <<cbVars, now, call, last, histVars, registered, peers,
                   flagVars>>

\* cache.set(key, v, ttl)
CacheSetOp(key, v, ttl) ==
    /\ CacheSet(key, v, ttl)
    /\ reply' = CacheReply("set", key, v, ttl,
                           IF CacheSetOk THEN "True" ELSE "False")
    /\ UNCHANGED <<cbVars, now, call, last, histVars, registered, peers,
                   connected, redisUp, table, rowLock, req, flast, clock,
                   flagHist, http>>

MutDeleteNeedsKey(key) == connected /\ redisUp /\ RedisGet(key) # "nil"

\* CacheLayer.delete: its return value
CacheDeleteOk(key) == connected /\ redisUp

\* cache.delete(key)
CacheDeleteOp(key) ==
    /\ redis' = IF connected /\ redisUp
                THEN [redis EXCEPT ![key] = NoEntry] ELSE redis
    /\ reply' = [CacheReply("delete", key, "None", 0,
                            IF CacheDeleteOk(key) THEN "True" ELSE "False")
                   EXCEPT !.removed = IF connected /\ redisUp
                                         /\ RedisGet(key) # "nil"
                                      THEN 1 ELSE 0]
    /\ UNCHANGED <<cbVars, now, call, last, histVars, registered, peers,
                   connected, redisUp, table, rowLock, req, flast, clock,
                   flagHist, http>>

\* glob patterns, one component for the prefix and one for the rest
Patterns == {<<"flag", "*">>, <<"user", "*">>, <<"*", "*">>, <<"none", "*">>}
Matches(key, pattern) ==
    /\ pattern[1] \in {"*", key[1]}
    /\ pattern[2] \in {"*", key[2]}

MutRedisKeysAll(pattern) == {k \in Keys : RedisGet(k) # "nil"}

\* redis_client.keys(pattern)
RedisKeys(pattern) ==
    {k \in Keys : RedisGet(k) # "nil" /\ Matches(k, pattern)}

\* cache.invalidate_pattern(pattern)
InvalidatePattern(pattern) ==
    /\ redis' = IF connected /\ redisUp
                THEN [k \in Keys |-> IF k \in RedisKeys(pattern)
                                     THEN NoEntry ELSE redis[k]]
                ELSE redis
    /\ reply' = CacheReply("invalidate_pattern", pattern, "None", 0,
                           IF connected /\ redisUp
                           THEN Cardinality(RedisKeys(pattern)) ELSE 0)
    /\ UNCHANGED <<cbVars, now, call, last, histVars, registered, peers,
                   connected, redisUp, table, rowLock, req, flast, clock,
                   flagHist, http>>

\* ---- CacheLayer.cached(prefix, ttl)(func), called one call at a time
\* wkey is _make_key(prefix, *args, **kwargs) of the call, wttl the
\* decorator's ttl; pending: the wrapper awaits func; invoked: how often
\* the call has invoked func; value: what the call returned; hit: it
\* returned the cached value
NoCachedReply ==
    [wop |-> "none", wkey |-> <<"", "">>, wttl |-> 0, pending |-> FALSE,
     invoked |-> 0, value |-> "None", hit |-> FALSE]

MutCachedHitTruthy(key) == Truthy(CacheGet(key))

\* `cached_value is not None`
CachedHit(key) == CacheGet(key) # "None"

\* the wrapper up to its first suspension: the cache lookup, then either
\* the cached value or func on its way
CachedStart(key, ttl) ==
    /\ ~reply.pending
    /\ reply' = IF CachedHit(key)
                THEN [wop |-> "cached", wkey |-> key, wttl |-> ttl,
                      pending |-> FALSE, invoked |-> 0,
                      value |-> CacheGet(key), hit |-> TRUE]
                ELSE [wop |-> "cached", wkey |-> key, wttl |-> ttl,
                      pending |-> TRUE, invoked |-> 1,
                      value |-> "None", hit |-> FALSE]
    /\ UNCHANGED <<cbVars, now, call, last, histVars, registered, peers,
                   flagVars>>

\* func returns `result`: it is cached unless it is None, and returned
CachedFinish(result) ==
    /\ reply.pending
    /\ IF result # "None"
       THEN CacheSet(reply.wkey, result, reply.wttl)
       ELSE UNCHANGED redis
    /\ reply' = [reply EXCEPT !.pending = FALSE, !.value = result]
    /\ UNCHANGED <<cbVars, now, call, last, histVars, registered, peers,
                   connected, redisUp, table, rowLock, req, flast, clock,
                   flagHist, http>>

\* func raises: the exception passes through the wrapper
CachedRaises ==
    /\ reply.pending
    /\ reply' = [reply EXCEPT !.pending = FALSE, !.value = "Exception"]
    /\ UNCHANGED <<cbVars, now, call, last, histVars, registered, peers,
                   flagVars>>

\* ---- CacheLayer._make_key(prefix, *args, **kwargs)
\* kwargs is the sequence of its (name, value) pairs in insertion order
KwNames == {"a", "b"}

\* the order of the names as strings
Rank(name) == IF name = "a" THEN 1 ELSE 2

MutNoSort(kw) == kw

\* json.dumps(..., sort_keys=True): the pairs of a dict ordered by name
SortKeys(kw) ==
    CHOOSE s \in [1..Len(kw) -> {kw[i] : i \in 1..Len(kw)}] :
        /\ {s[i] : i \in 1..Len(kw)} = {kw[i] : i \in 1..Len(kw)}
        /\ \A i, j \in 1..Len(kw) : i < j => Rank(s[i][1]) < Rank(s[j][1])

RECURSIVE PairTokens(_)
PairTokens(kw) ==
    IF kw = <<>> THEN <<>>
    ELSE <<Rank(Head(kw)[1]), Head(kw)[2]>> \o PairTokens(Tail(kw))

\* key_data = json.dumps({"args": args, "kwargs": kwargs}, sort_keys=True),
\* as the sequence of its tokens
KeyData(args, kw) == args \o <<0>> \o PairTokens(SortKeys(kw))

\* number of values the 12 hex digits of the digest are folded into
DigestSpace == 4093

\* hashlib.md5(key_data.encode()).hexdigest()[:12]: a fixed function of
\* the text, folded into DigestSpace values
RECURSIVE Digest(_)
Digest(text) ==
    IF text = <<>> THEN 7
    ELSE (Digest(Tail(text)) * 31 + Head(text) + 1) % DigestSpace

\* f"{prefix}:{key_hash}"
MakeKey(prefix, args, kw) == <<prefix, Digest(KeyData(args, kw))>>

NoKeyCall == [prefix |-> "", args |-> <<>>, kwargs |-> <<>>, key |-> <<"", 0>>]

NoKeyReply ==
    [mop |-> "none", prefix |-> "", args |-> <<>>, kwargs |-> <<>>,
     key |-> <<"", 0>>, before |-> NoKeyCall]

\* cache._make_key(prefix, *args, **kwargs) is called; `before` keeps the
\* call made before this one
MakeKeyOp(prefix, args, kw) ==
    /\ reply' = [mop |-> "make_key", prefix |-> prefix, args |-> args,
                 kwargs |-> kw, key |-> MakeKey(prefix, args, kw),
                 before |-> [prefix |-> reply.prefix, args |-> reply.args,
                             kwargs |-> reply.kwargs, key |-> reply.key]]
    /\ UNCHANGED <<cbVars, now, call, last, histVars, registered, peers,
                   flagVars>>

\* CacheLayer._connect: a client is kept when the redis library is
\* installed, REDIS_URL is set and the ping is answered
Connect(lib, url, ping) == lib /\ url /\ ping

\* ---------------------------------------------------- FeatureFlagService
FlagTTL == 60

IdleReq == [pc |-> "idle", op |-> "none", name |-> "x", arg |-> "None",
            row |-> "None", ok |-> FALSE, fresh |-> FALSE]

NoReq == [op |-> "none", arg |-> "None", result |-> "None", seq |-> 0]

\* ---- history: the value the last toggle of a name returned true for
NotSettled == [v |-> "None", until |-> 0]

\* requests on name n that write the table, in progress
Writers(n) == {r \in Reqs : req[r].name = n /\ req[r].op \in {"toggle", "create"}}

\* the scenario create(x, True) then toggle(x, False), requests issued one
\* at a time; reads do not move it, any other write ends it
ScnNext(op, arg) ==
    IF scn = "off" \/ op = "get" THEN scn
    ELSE IF scn = "start" /\ op = "create" /\ arg = "True" THEN "created"
    ELSE IF scn = "created" /\ op = "toggle" /\ arg = "False" THEN "toggled"
    ELSE "off"

\* what a request of kind op hands to its caller; seq tells one
\* finished request from the next, arg is the is_enabled a create was
\* called with
Done(op, result) ==
    [op |-> op, arg |-> "None", result |-> result, seq |-> 1 - flast.seq]

\* ---- get_flag_state
\* up to its first suspension: the cache lookup, then either the cached
\* answer or the SELECT on its way to the database
GetStart(r, n) ==
    /\ req[r].pc = "idle"
    /\ IF CacheGet(FlagKey(n)) # "None"
       THEN /\ flast' = Done("get", PyBool(CacheGet(FlagKey(n))))
            /\ UNCHANGED req
       ELSE /\ req' = [req EXCEPT ![r] =
                  [IdleReq EXCEPT !.pc = "g_select", !.op = "get",
                                  !.name = n,
                                  !.fresh = settled[n].v # "None"]]
            /\ UNCHANGED flast
    /\ UNCHANGED <<cacheVars, table, rowLock, clock, flagHist, breakerVars,
                   http>>

\* the database evaluates the SELECT (read committed)
GetSelect(r) ==
    /\ req[r].pc = "g_select"
    /\ req' = [req EXCEPT ![r].pc = "g_row", ![r].row = table[req[r].name]]
    /\ UNCHANGED <<cacheVars, table, rowLock, flast, clock, flagHist,
                   breakerVars, http>>

\* get_flag_state resumes with the row: cache it and return is_enabled, or
\* return the caller's default d
GetFinish(r, d) ==
    /\ req[r].pc = "g_row"
    /\ IF req[r].row # "None"
       THEN /\ CacheSet(FlagKey(req[r].name), req[r].row, FlagTTL)
            /\ flast' = Done(req[r].op, req[r].row)
       ELSE /\ UNCHANGED redis
            /\ flast' = Done(req[r].op, d)
    /\ req' = [req EXCEPT ![r] = IdleReq]
    /\ UNCHANGED <<connected, redisUp, table, rowLock, clock, flagHist,
                   breakerVars, http>>

\* ---- toggle_flag
\* a write on name n begins: reads in progress are no longer "after the
\* last toggle and before any later one"
Unsettle(n) ==
    [r \in Reqs |-> IF req[r].name = n /\ req[r].op = "get"
                    THEN [req[r] EXCEPT !.fresh = FALSE] ELSE req[r]]

\* the UPDATE reaches the database, which locks the row it matched until
\* the transaction ends; rowcount is kept in `ok`
ToggleUpdate(r, n, v) ==
    /\ req[r].pc = "idle"
    /\ rowLock[n] = 0
    /\ req' = [Unsettle(n) EXCEPT ![r] =
           [IdleReq EXCEPT !.pc = "t_updated", !.op = "toggle", !.name = n,
                           !.arg = v, !.ok = (table[n] # "None")]]
    /\ rowLock' = IF table[n] # "None" THEN [rowLock EXCEPT ![n] = r]
                  ELSE rowLock
    /\ settled' = [settled EXCEPT ![n] = NotSettled]
    /\ UNCHANGED <<cacheVars, table, flast, clock, faulted, scn, breakerVars,
                   http>>

\* db.commit(): the new is_enabled becomes visible, the row lock is released
ToggleCommit(r) ==
    /\ req[r].pc = "t_updated"
    /\ req' = [req EXCEPT ![r].pc = "t_committed"]
    /\ IF req[r].ok
       THEN /\ table' = [table EXCEPT ![req[r].name] = req[r].arg]
            /\ rowLock' = [rowLock EXCEPT ![req[r].name] = 0]
       ELSE UNCHANGED <<table, rowLock>>
    /\ UNCHANGED <<cacheVars, flast, clock, flagHist, breakerVars, http>>

MutToggleAlwaysCaches(r) == TRUE

MutToggleNeverCaches(r) == FALSE

\* result.rowcount != 0: the toggle goes on to the cache write
ToggleMatched(r) == req[r].ok

\* toggle_flag resumes after the commit: False when no row matched, else
\* the cache entry is overwritten and True returned
ToggleFinish(r) ==
    /\ req[r].pc = "t_committed"
    /\ IF ToggleMatched(r)
       THEN CacheSet(FlagKey(req[r].name), req[r].arg, FlagTTL)
       ELSE UNCHANGED redis
    /\ flast' = Done(req[r].op, IF req[r].ok THEN "True" ELSE "False")
    /\ settled' = [settled EXCEPT ![req[r].name] =
           IF req[r].ok /\ Writers(req[r].name) = {r}
           THEN [v |-> req[r].arg, until |-> clock + FlagTTL]
           ELSE NotSettled]
    /\ scn' = ScnNext("toggle", req[r].arg)
    /\ req' = [req EXCEPT ![r] = IdleReq]
    /\ UNCHANGED <<connected, redisUp, table, rowLock, clock, faulted,
                   breakerVars, http>>

\* ---- create_flag
\* the database evaluates the SELECT for an existing record, which
\* create_flag returns as it is; with no record the INSERT follows
CreateSelect(r, n, v) ==
    /\ req[r].pc = "idle"
    /\ IF table[n] # "None"
       THEN /\ flast' = [Done("create", table[n]) EXCEPT !.arg = v]
            /\ scn' = ScnNext("create", "existing")
            /\ req' = Unsettle(n)
       ELSE /\ req' = [Unsettle(n) EXCEPT ![r] =
                  [IdleReq EXCEPT !.pc = "c_selected", !.op = "create",
                                  !.name = n, !.arg = v]]
            /\ UNCHANGED <<flast, scn>>
    /\ settled' = [settled EXCEPT ![n] = NotSettled]
    /\ UNCHANGED <<cacheVars, table, rowLock, clock, faulted, breakerVars,
                   http>>

MutCreateOverwrites(r) == TRUE

\* the INSERT can be committed: no committed row has the (unique) name
CreateInserts(r) == table[req[r].name] = "None"

\* db.commit(): the INSERT is committed, or fails on the unique name
CreateCommit(r) ==
    /\ req[r].pc = "c_selected"
    /\ req' = [req EXCEPT ![r].pc = "c_committed", ![r].ok = CreateInserts(r)]
    /\ table' = IF CreateInserts(r)
                THEN [table EXCEPT ![req[r].name] = req[r].arg]
                ELSE table
    /\ UNCHANGED <<cacheVars, rowLock, flast, clock, flagHist, breakerVars,
                   http>>

MutCreateAlwaysPrimes(r) == TRUE

\* the cache write of create_flag is reached: the commit did not raise
CreatePrimes(r) == req[r].ok

\* create_flag resumes after the commit: the cache is primed and the new
\* record returned; after a failed commit the session is rolled back and
\* the record found by a second SELECT returned
CreateFinish(r) ==
    /\ req[r].pc = "c_committed"
    /\ IF CreatePrimes(r)
       THEN CacheSet(FlagKey(req[r].name), req[r].arg, FlagTTL)
       ELSE UNCHANGED redis
    /\ flast' = IF req[r].ok
                THEN [Done(req[r].op, req[r].arg) EXCEPT !.arg = req[r].arg]
                ELSE [Done(req[r].op, table[req[r].name])
                        EXCEPT !.arg = req[r].arg]
    /\ scn' = ScnNext("create", IF req[r].ok THEN req[r].arg ELSE "existing")
    /\ req' = [req EXCEPT ![r] = IdleReq]
    /\ UNCHANGED <<connected, redisUp, table, rowLock, clock, settled,
                   faulted, breakerVars, http>>

\* ---- environment of the flag service
TickStep == FlagTTL \div 2

\* the wall clock advances; Redis drops the keys whose TTL is over
FlagTick ==
    /\ clock < MaxTicks * TickStep
    /\ clock' = clock + TickStep
    /\ redis' = [k \in Keys |-> IF redis[k].val # "nil" /\ redis[k].exp <= clock'
                                THEN NoEntry ELSE redis[k]]
    /\ settled' = [n \in Names |-> IF settled[n].until <= clock'
                                   THEN NotSettled ELSE settled[n]]
    /\ UNCHANGED <<connected, redisUp, table, rowLock, req, flast, faulted,
                   scn, breakerVars, http>>

\* the backend stops answering: every redis_client call raises
RedisDown ==
    /\ connected /\ redisUp
    /\ redisUp' = FALSE
    /\ faulted' = TRUE
    /\ UNCHANGED <<connected, redis, table, rowLock, req, flast, clock,
                   settled, scn, breakerVars, http>>

\* the backend answers again
RedisBack ==
    /\ ~redisUp
    /\ redisUp' = TRUE
    /\ UNCHANGED <<connected, redis, table, rowLock, req, flast, clock,
                   flagHist, breakerVars, http>>

\* ------------------------------------------------------------- routers
\* One HTTP request is served at a time, as the kill-switch test issues
\* them; the flag service calls of a handler run in request slot 1. The
\* flag service is modelled for one flag name, which stands for the flag
\* the test toggles (gli_quote, identity_verification).
\* pc: "idle" between requests, "service" while the handler awaits the flag
\* service; seq: flast.seq when the handler was entered; status, ran: the
\* response, and whether the feature behind the endpoint was run;
\* toggled (history): is_enabled of the last toggle answered with 200
NoHttp == [pc |-> "idle", endpoint |-> "none", name |-> "x", arg |-> "None",
           seq |-> 0, status |-> 0, ran |-> FALSE,
           toggled |-> [n \in Names |-> "None"]]

\* a handler is entered and goes on to await the flag service
Entered(e, n, v) ==
    [http EXCEPT !.pc = "service", !.endpoint = e, !.name = n, !.arg = v,
                 !.seq = flast.seq, !.status = 0, !.ran = FALSE]

\* the response of a handler
Response(e, n, status, ran) ==
    [http EXCEPT !.pc = "idle", !.endpoint = e, !.name = n,
                 !.status = status, !.ran = ran]

\* the flag service call of the handler being served is in progress
Awaiting(e) ==
    http.pc = "service" /\ http.endpoint = e /\ flast.seq = http.seq

\* the flag service call of the handler being served has returned
Returned(e) ==
    http.pc = "service" /\ http.endpoint = e /\ flast.seq # http.seq

HttpOnly == <<cacheVars, table, rowLock, req, flast, clock, flagHist,
              breakerVars>>

\* ---- POST /admin/features/{name}/toggle
ToggleFeature(n, v) ==
    /\ http.pc = "idle"
    /\ http' = Entered("toggle_feature", n, v)
    /\ UNCHANGED HttpOnly

ToggleFeatureService ==
    /\ Awaiting("toggle_feature")
    /\ \/ ToggleUpdate(1, http.name, http.arg)
       \/ ToggleCommit(1)
       \/ ToggleFinish(1)

\* 404 when toggle_flag returned False, else its True
ToggleFeatureRespond ==
    /\ Returned("toggle_feature")
    /\ http' = IF flast.result = "False"
               THEN Response("toggle_feature", http.name, 404, FALSE)
               ELSE [Response("toggle_feature", http.name, 200, TRUE)
                       EXCEPT !.toggled[http.name] = http.arg]
    /\ UNCHANGED HttpOnly

\* ---- POST /admin/features
CreateFeature(n, v) ==
    /\ http.pc = "idle"
    /\ http' = Entered("create_feature", n, v)
    /\ UNCHANGED HttpOnly

CreateFeatureService ==
    /\ Awaiting("create_feature")
    /\ \/ CreateSelect(1, http.name, http.arg)
       \/ CreateCommit(1)
       \/ CreateFinish(1)

CreateFeatureRespond ==
    /\ Returned("create_feature")
    /\ http' = Response("create_feature", http.name, 200, TRUE)
    /\ UNCHANGED HttpOnly

\* ---- POST /identity/start
\* Depends(get_current_user) answers 401 without a valid token; with one
\* the handler asks for the flag identity_verification, default True
StartIdentityVerification(n, authenticated) ==
    /\ http.pc = "idle"
    /\ http' = IF authenticated
               THEN Entered("start_identity_verification", n, "None")
               ELSE Response("start_identity_verification", n, 401, FALSE)
    /\ UNCHANGED HttpOnly

StartIdentityService ==
    /\ Awaiting("start_identity_verification")
    /\ \/ GetStart(1, http.name)
       \/ GetSelect(1)
       \/ GetFinish(1, "True")

\* 503 when the flag is off; else the Stripe session is created (200), or
\* its failure answered with 400
StartIdentityRespond(stripeOk) ==
    /\ Returned("start_identity_verification")
    /\ http' = IF flast.result = "False"
               THEN Response("start_identity_verification", http.name,
                             503, FALSE)
               ELSE Response("start_identity_verification", http.name,
                             IF stripeOk THEN 200 ELSE 400, TRUE)
    /\ UNCHANGED HttpOnly

\* ---- POST /verification/gli/quote
\* Depends(get_current_user), then gli_service.generate_quote and the
\* quote as the response; the handler calls nothing else
GetGliQuote(n, authenticated) ==
    /\ http.pc = "idle"
    /\ http' = IF authenticated
               THEN Response("get_gli_quote", n, 200, TRUE)
               ELSE Response("get_gli_quote", n, 401, FALSE)
    /\ UNCHANGED HttpOnly

\* a process that has served no flag request yet
FlagsFresh ==
    /\ redisUp = TRUE
    /\ redis = [k \in Keys |-> NoEntry]
    /\ table = [n \in Names |-> "None"]
    /\ rowLock = [n \in Names |-> 0]
    /\ req = [r \in Reqs |-> IdleReq]
    /\ flast = NoReq
    /\ clock = 0
    /\ settled = [n \in Names |-> NotSettled]
    /\ faulted = FALSE
    /\ http = NoHttp

\* a breaker record just created
BreakerFresh ==
    /\ state = "CLOSED"
    /\ failure_count = 0
    /\ success_count = 0
    /\ last_failure_time = 0
    /\ half_open_calls = 0
    /\ now = 1
    /\ call = [c \in Calls |-> IdleCall]
    /\ last = NoCall
    /\ consecFail = 0
    /\ trialSucc = -1
    /\ windowAdmitted = 0
    /\ trace = IF <<failure_threshold, recovery_timeout,
                    half_open_max_calls>> = TraceConfig
               THEN "start" ELSE "off"

\* the registry once the wrapper of "x" has made its first reference
RegistryOfX ==
    /\ registered = {"x"}
    /\ peers = [n \in PeerNames |->
          NewRecord(DefaultThreshold, DefaultTimeout, DefaultHalfOpenMax)]
    /\ reply = NoReply

InitBreaker ==
    /\ failure_threshold \in Thresholds
    /\ recovery_timeout \in Timeouts
    /\ half_open_max_calls \in HalfOpenMax
    /\ BreakerFresh
    /\ RegistryOfX
    /\ connected = TRUE
    /\ scn = "off"
    /\ FlagsFresh

\* concurrent calls through circuit_breaker(name, ...)
NextBreaker ==
    \/ \E c \in Calls, fb \in BOOLEAN : StartCall(c, 1, fb)
    \/ \E c \in Calls : OpReturns(c)
    \/ \E c \in Calls : OpRaises(c)
    \/ \E c \in Calls : Cancel(c)
    \/ Tick

SpecBreaker == InitBreaker /\ [][NextBreaker]_vars

\* a call fails while the clock of the run can still reach the end of
\* the recovery timeout that the failure starts
FailsInTime(c) ==
    /\ now + recovery_timeout <= MaxTime
    /\ OpRaises(c)

\* the breaker under callers that keep calling: time keeps advancing,
\* admission keeps being requested, every admitted call completes
NextLive ==
    \/ \E c \in Calls, fb \in BOOLEAN : StartCall(c, 1, fb)
    \/ \E c \in Calls : OpReturns(c)
    \/ \E c \in Calls : FailsInTime(c)
    \/ \E c \in Calls : Cancel(c)
    \/ Tick

Completes(c) == OpReturns(c) \/ FailsInTime(c) \/ Cancel(c)

SpecLive ==
    /\ InitBreaker
    /\ [][NextLive]_vars
    /\ WF_vars(Tick)
    /\ WF_vars(\E c \in Calls, fb \in BOOLEAN : StartCall(c, 1, fb))
    /\ \A c \in Calls : WF_vars(Completes(c))

\* calls through resilient(name, max_attempts, ...), one after another
NextResilient ==
    \/ \E ma \in 1..MaxAttempts, fb \in BOOLEAN : StartCall(1, ma, fb)
    \/ OpReturns(1)
    \/ OpRaises(1)
    \/ Wake(1)
    \/ Cancel(1)
    \/ Tick

SpecResilient == InitBreaker /\ [][NextResilient]_vars

BreakerQuiet ==
    /\ failure_threshold = 5
    /\ recovery_timeout = 30
    /\ half_open_max_calls = 3
    /\ BreakerFresh

\* the module has just been imported: _circuit_breakers is empty
InitRegistry ==
    /\ registered = {}
    /\ peers = [n \in PeerNames |->
          NewRecord(DefaultThreshold, DefaultTimeout, DefaultHalfOpenMax)]
    /\ reply = NoReply
    /\ BreakerQuiet
    /\ connected = TRUE
    /\ scn = "off"
    /\ FlagsFresh

\* calls through circuit_breaker("x", ...), one after another, with
\* get_circuit_breaker and get_circuit_health called between their steps
NextRegistry ==
    \/ \E cfg \in Configs : WrapperCall(1, cfg[1], cfg[2], FALSE)
    \/ OpReturns(1)
    \/ OpRaises(1)
    \/ RegistryTick
    \/ \E n \in BreakerNames, cfg \in Configs :
          GetCircuitBreaker(n, cfg[1], cfg[2], cfg[3])
    \/ GetCircuitHealth

SpecRegistry == InitRegistry /\ [][NextRegistry]_vars

InitRetry ==
    /\ BreakerQuiet
    /\ RegistryOfX
    /\ connected = TRUE
    /\ scn = "off"
    /\ FlagsFresh

\* calls through resilient(name, max_attempts) with the breaker's default
\* configuration, one after another, each running its retry loop to the end
NextRetry ==
    \/ \E ma \in 1..MaxRetryAttempts, fb \in BOOLEAN : StartCall(1, ma, fb)
    \/ OpReturns(1)
    \/ OpRaises(1)
    \/ Wake(1)
    \/ RetryTick

SpecRetry == InitRetry /\ [][NextRetry]_vars

InitFlags ==
    /\ connected \in BOOLEAN
    /\ scn = "off"
    /\ FlagsFresh
    /\ BreakerQuiet
    /\ RegistryOfX

\* concurrent flag requests over a backend that answers whenever the layer
\* is connected
NextFlags ==
    \/ \E r \in Reqs, n \in Names : GetStart(r, n)
    \/ \E r \in Reqs : GetSelect(r)
    \/ \E r \in Reqs, d \in {"True", "False"} : GetFinish(r, d)
    \/ \E r \in Reqs, n \in Names, v \in {"True", "False"} : ToggleUpdate(r, n, v)
    \/ \E r \in Reqs : ToggleCommit(r)
    \/ \E r \in Reqs : ToggleFinish(r)
    \/ \E r \in Reqs, n \in Names, v \in {"True", "False"} : CreateSelect(r, n, v)
    \/ \E r \in Reqs : CreateCommit(r)
    \/ \E r \in Reqs : CreateFinish(r)
    \/ FlagTick

SpecFlags == InitFlags /\ [][NextFlags]_vars

\* a record exists for every name and its cache entry has expired
InitToggles ==
    /\ connected \in BOOLEAN
    /\ redisUp = TRUE
    /\ redis = [k \in Keys |-> NoEntry]
    /\ table \in [Names -> {"True", "False"}]
    /\ rowLock = [n \in Names |-> 0]
    /\ req = [r \in Reqs |-> IdleReq]
    /\ flast = NoReq
    /\ clock = 0
    /\ settled = [n \in Names |-> NotSettled]
    /\ faulted = FALSE
    /\ scn = "off"
    /\ http = NoHttp
    /\ BreakerQuiet
    /\ RegistryOfX

\* concurrent toggle_flag calls, over a backend that answers whenever the
\* layer is connected
NextToggles ==
    \/ \E r \in Reqs, n \in Names, v \in {"True", "False"} : ToggleUpdate(r, n, v)
    \/ \E r \in Reqs : ToggleCommit(r)
    \/ \E r \in Reqs : ToggleFinish(r)
    \/ FlagTick

SpecToggles == InitToggles /\ [][NextToggles]_vars

\* concurrent create_flag calls, over a backend that answers whenever the
\* layer is connected
NextCreates ==
    \/ \E r \in Reqs, n \in Names, v \in {"True", "False"} : CreateSelect(r, n, v)
    \/ \E r \in Reqs : CreateCommit(r)
    \/ \E r \in Reqs : CreateFinish(r)
    \/ FlagTick

SpecCreates == InitFlags /\ [][NextCreates]_vars

InitFlagsSeq ==
    /\ connected \in BOOLEAN
    /\ scn = "start"
    /\ FlagsFresh
    /\ BreakerQuiet
    /\ RegistryOfX

\* flag requests issued one after another, over a backend that may stop
\* answering
NextFlagsSeq ==
    \/ \E n \in Names : GetStart(1, n)
    \/ GetSelect(1)
    \/ \E d \in {"True", "False"} : GetFinish(1, d)
    \/ \E n \in Names, v \in {"True", "False"} : ToggleUpdate(1, n, v)
    \/ ToggleCommit(1)
    \/ ToggleFinish(1)
    \/ \E n \in Names, v \in {"True", "False"} : CreateSelect(1, n, v)
    \/ CreateCommit(1)
    \/ CreateFinish(1)
    \/ FlagTick
    \/ RedisDown
    \/ RedisBack

SpecFlagsSeq == InitFlagsSeq /\ [][NextFlagsSeq]_vars

InitGate ==
    /\ connected \in BOOLEAN
    /\ scn = "off"
    /\ FlagsFresh
    /\ BreakerQuiet
    /\ RegistryOfX

\* HTTP requests issued one after another while time passes, over a
\* backend that answers whenever the layer is connected
NextGate ==
    \/ \E n \in Names, v \in {"True", "False"} : ToggleFeature(n, v)
    \/ ToggleFeatureService
    \/ ToggleFeatureRespond
    \/ \E n \in Names, v \in {"True", "False"} : CreateFeature(n, v)
    \/ CreateFeatureService
    \/ CreateFeatureRespond
    \/ \E n \in Names, a \in BOOLEAN : StartIdentityVerification(n, a)
    \/ StartIdentityService
    \/ \E ok \in BOOLEAN : StartIdentityRespond(ok)
    \/ \E n \in Names, a \in BOOLEAN : GetGliQuote(n, a)
    \/ FlagTick

SpecGate == InitGate /\ [][NextGate]_vars

\* values and TTLs handed to cache.set
Values == {"False", "int:0", "list:[]", "None", "tuple:(1, 2)"}
TTLs == {FlagTTL}

\* the CacheLayer has just been constructed; the backend did or did not
\* answer at that time
InitCache ==
    /\ redisUp \in BOOLEAN
    /\ \E lib \in BOOLEAN, url \in BOOLEAN :
          connected = Connect(lib, url, redisUp)
    /\ faulted = ~redisUp
    /\ redis = [k \in Keys |-> NoEntry]
    /\ table = [n \in Names |-> "None"]
    /\ rowLock = [n \in Names |-> 0]
    /\ req = [r \in Reqs |-> IdleReq]
    /\ flast = NoReq
    /\ clock = 0
    /\ settled = [n \in Names |-> NotSettled]
    /\ scn = "off"
    /\ http = NoHttp
    /\ BreakerQuiet
    /\ registered = {"x"}
    /\ peers = [n \in PeerNames |->
          NewRecord(DefaultThreshold, DefaultTimeout, DefaultHalfOpenMax)]
    /\ reply = NoCacheReply

\* CacheLayer operations called one after another, over a backend that may
\* stop answering and answer again
NextCache ==
    \/ \E k \in Keys : CacheGetOp(k)
    \/ \E k \in Keys, v \in Values, ttl \in TTLs : CacheSetOp(k, v, ttl)
    \/ \E k \in Keys : CacheDeleteOp(k)
    \/ \E p \in Patterns : InvalidatePattern(p)
    \/ FlagTick
    \/ RedisDown
    \/ RedisBack

SpecCache == InitCache /\ [][NextCache]_vars

InitCached ==
    /\ redisUp \in BOOLEAN
    /\ \E lib \in BOOLEAN, url \in BOOLEAN :
          connected = Connect(lib, url, redisUp)
    /\ faulted = ~redisUp
    /\ redis = [k \in Keys |-> NoEntry]
    /\ table = [n \in Names |-> "None"]
    /\ rowLock = [n \in Names |-> 0]
    /\ req = [r \in Reqs |-> IdleReq]
    /\ flast = NoReq
    /\ clock = 0
    /\ settled = [n \in Names |-> NotSettled]
    /\ scn = "off"
    /\ http = NoHttp
    /\ BreakerQuiet
    /\ registered = {"x"}
    /\ peers = [n \in PeerNames |->
          NewRecord(DefaultThreshold, DefaultTimeout, DefaultHalfOpenMax)]
    /\ reply = NoCachedReply

\* calls of a function decorated with cached(...), one after another,
\* while time passes and the backend stops and starts answering
NextCached ==
    \/ \E k \in Keys, ttl \in TTLs : CachedStart(k, ttl)
    \/ \E v \in Values : CachedFinish(v)
    \/ CachedRaises
    \/ FlagTick
    \/ RedisDown
    \/ RedisBack

SpecCached == InitCached /\ [][NextCached]_vars

\* arguments _make_key is called with
Prefixes == {"properties", "user"}
ArgLists == {<<>>, <<1>>, <<1, 2>>, <<2, 1>>}
KwLists == {<<>>, <<<<"a", 1>>>>, <<<<"a", 1>>, <<"b", 2>>>>,
            <<<<"b", 2>>, <<"a", 1>>>>, <<<<"a", 2>>, <<"b", 1>>>>}

InitMakeKey ==
    /\ redisUp \in BOOLEAN
    /\ \E lib \in BOOLEAN, url \in BOOLEAN :
          connected = Connect(lib, url, redisUp)
    /\ faulted = ~redisUp
    /\ redis = [k \in Keys |-> NoEntry]
    /\ table = [n \in Names |-> "None"]
    /\ rowLock = [n \in Names |-> 0]
    /\ req = [r \in Reqs |-> IdleReq]
    /\ flast = NoReq
    /\ clock = 0
    /\ settled = [n \in Names |-> NotSettled]
    /\ scn = "off"
    /\ http = NoHttp
    /\ BreakerQuiet
    /\ registered = {"x"}
    /\ peers = [n \in PeerNames |->
          NewRecord(DefaultThreshold, DefaultTimeout, DefaultHalfOpenMax)]
    /\ reply = NoKeyReply

\* _make_key called again and again while time passes and the backend
\* stops and starts answering
NextMakeKey ==
    \/ \E prefix \in Prefixes, args \in ArgLists, kw \in KwLists :
          MakeKeyOp(prefix, args, kw)
    \/ FlagTick
    \/ RedisDown
    \/ RedisBack

SpecMakeKey == InitMakeKey /\ [][NextMakeKey]_vars

\* ================================================================ claims
\* steps of the breaker, as seen on the calls
StartStep == \E c \in Calls, ma \in 1..MaxRetryAttempts, fb \in BOOLEAN : StartCall(c, ma, fb)
AdmitStep == \E c \in Calls : call[c].pc = "idle" /\ call'[c].pc = "op"
SuccessStep == \E c \in Calls : OpReturns(c)
FailureStep == \E c \in Calls : call[c].pc = "op" /\ ~AttemptsRemain(c) /\ OpRaises(c)
Elapsed == now - last_failure_time

RECURSIVE Pow(_, _)
Pow(b, e) == IF e = 0 THEN 1 ELSE b * Pow(b, e - 1)

(* C1: once failure_threshold failures have been recorded with no success  *)
(* between them the state is OPEN; and while the state is OPEN and         *)
(* now - last_failure_time < recovery_timeout every admission check is     *)
(* answered false (no call is admitted) and the state stays OPEN.          *)
C1_OpensAtThreshold ==
    [][ /\ (FailureStep /\ consecFail' >= failure_threshold => state' = "OPEN")
        /\ (state = "OPEN" /\ Elapsed < recovery_timeout /\ StartStep
              => /\ state' = "OPEN"
                 /\ ~AdmitStep
                 /\ last'.kind \in {"fallback", "CircuitBreakerError"}) ]_vars

C1_Witness ==
    /\ failure_threshold = 2
    /\ consecFail >= failure_threshold
    /\ state = "OPEN"
    /\ Elapsed < recovery_timeout
    /\ last.kind = "CircuitBreakerError"

(* C2: in OPEN, an admission check made when now - last_failure_time >=    *)
(* recovery_timeout is answered true and moves the state to HALF_OPEN; a   *)
(* step in which only the clock advances changes no field of the breaker.  *)
C2_HalfOpenOnAdmissionCheck ==
    [][ /\ (state = "OPEN" /\ Elapsed >= recovery_timeout /\ StartStep
              => state' = "HALF_OPEN" /\ AdmitStep)
        /\ (now' # now => UNCHANGED cbVars) ]_vars

C2_Witness ==
    /\ state = "HALF_OPEN"
    /\ windowAdmitted = 1
    /\ recovery_timeout = 2
    /\ Elapsed = recovery_timeout
    /\ \E c \in Calls : call[c].pc = "op"

(* C3: after half_open_max_calls successes recorded since the breaker      *)
(* entered HALF_OPEN, with no failure between them, the state is CLOSED    *)
(* with failure_count = 0 and success_count = 0; a failure recorded while  *)
(* HALF_OPEN moves the state to OPEN with success_count = 0 and            *)
(* last_failure_time = the time of that failure.                           *)
C3_HalfOpenOutcome ==
    [][ /\ (trialSucc' >= half_open_max_calls
              => state' = "CLOSED" /\ failure_count' = 0 /\ success_count' = 0)
        /\ (state = "HALF_OPEN" /\ FailureStep
              => /\ state' = "OPEN"
                 /\ success_count' = 0
                 /\ last_failure_time' = now) ]_vars

C3_Witness ==
    /\ half_open_max_calls = 2
    /\ trialSucc >= half_open_max_calls
    /\ state = "CLOSED"
    /\ last.kind = "result"

(* C4: between one entry into HALF_OPEN and the next exit from it at most  *)
(* half_open_max_calls calls are admitted, counting the call whose         *)
(* admission check entered HALF_OPEN.                                      *)
C4_TrialCallsLimited ==
    state = "HALF_OPEN" => windowAdmitted <= half_open_max_calls

C6_ExactlyOneRecord ==
    last.admitted => last.recorded = 1


\* steps of the flag service, as seen on the requests
Bools == {"True", "False"}
GetHitStep(r, n) == GetStart(r, n) /\ flast' # flast
GetMissStep(r, n) == GetStart(r, n) /\ req'[r].pc = "g_select"

(* C7: once toggle_flag(name, v) has returned true, every get_flag_state   *)
(* on that name which starts after that return, before any later write to  *)
(* the name begins and before the 60 s TTL of the toggle's cache entry is  *)
(* over, returns v (cache connected).                                      *)
C7_KillSwitchPropagates ==
    [][ \A r \in Reqs :
          /\ \A n \in Names :
               connected /\ settled[n].v # "None" /\ GetHitStep(r, n)
                 => flast'.result = settled[n].v
          /\ \A d \in Bools :
               connected /\ req[r].fresh /\ settled[req[r].name].v # "None"
                         /\ GetFinish(r, d)
                 => flast'.result = settled[req[r].name].v ]_vars

(* C8: requests on flag x issued one after another, the backend answering  *)
(* throughout or the cache disconnected: a read with default False before  *)
(* any create returns False; after create_flag(x, True) a read returns     *)
(* True; after toggle_flag(x, False) a read returns False, the first one   *)
(* included.                                                               *)
C8_SequentialScenario ==
    [][ \A d \in Bools :
          ~faulted /\ (GetHitStep(1, "x") \/ GetFinish(1, d))
            => /\ (scn = "start" /\ d = "False" => flast'.result = "False")
               /\ (scn = "created" => flast'.result = "True")
               /\ (scn = "toggled" => flast'.result = "False") ]_vars

C8_Witness ==
    /\ connected /\ ~faulted
    /\ scn = "toggled"
    /\ flast.op = "get" /\ flast.result = "False"
    /\ RedisGet(FlagKey("x")) = "false"

(* C9: get_flag_state resolves cache, then store, then default: a cache    *)
(* entry (true or false) is returned without a SELECT; on a miss the       *)
(* SELECT is issued, a record's is_enabled is returned and written to the  *)
(* cache with TTL 60, and with no record the default is returned and the   *)
(* cache is left alone.                                                    *)
C9_ResolutionOrder ==
    [][ \A r \in Reqs, n \in Names, d \in Bools :
          /\ (GetStart(r, n) /\ connected /\ redisUp
                /\ RedisGet(FlagKey(n)) # "nil"
                => /\ req'[r].pc = "idle"
                   /\ flast' # flast
                   /\ flast'.result = JsonLoads(RedisGet(FlagKey(n)))
                   /\ redis' = redis)
          /\ (GetStart(r, n) /\ (~connected \/ ~redisUp
                                   \/ RedisGet(FlagKey(n)) = "nil")
                => req'[r].pc = "g_select" /\ flast' = flast)
          /\ (GetFinish(r, d) /\ req[r].name = n /\ req[r].row # "None"
                => /\ flast'.result = req[r].row
                   /\ (connected /\ redisUp
                         => redis' = [redis EXCEPT ![FlagKey(n)] =
                                [val |-> JsonDumps(req[r].row),
                                 exp |-> clock + 60]]))
          /\ (GetFinish(r, d) /\ req[r].row = "None"
                => flast'.result = d /\ redis' = redis) ]_vars

C9_Witness ==
    /\ connected /\ redisUp
    /\ flast.op = "get" /\ flast.result = "False"
    /\ table["x"] = "False"
    /\ redis[FlagKey("x")] = [val |-> "false", exp |-> clock + 60]
    /\ clock > 0

(* C10: toggle_flag(name, v) on a name without a record returns false and  *)
(* changes neither the table nor the cache entry; with a record the        *)
(* committed is_enabled becomes v, the cache is written only by the step   *)
(* that follows the commit (value v, TTL 60), and true is returned.        *)
C10_ToggleContract ==
    [][ \A r \in Reqs :
          /\ \A n \in Names, v \in Bools :
               ToggleUpdate(r, n, v)
                 => /\ req'[r].ok = (table[n] # "None")
                    /\ table' = table /\ redis' = redis
          /\ (ToggleCommit(r)
                => /\ redis' = redis
                   /\ table' = IF req[r].ok
                               THEN [table EXCEPT ![req[r].name] = req[r].arg]
                               ELSE table)
          /\ (ToggleFinish(r)
                => /\ table' = table
                   /\ IF req[r].ok
                      THEN /\ flast'.result = "True"
                           /\ (connected /\ redisUp
                                 => redis' = [redis EXCEPT ![FlagKey(req[r].name)] =
                                        [val |-> JsonDumps(req[r].arg),
                                         exp |-> clock + 60]])
                      ELSE /\ flast'.result = "False"
                           /\ redis' = redis)
          /\ (req[r].op = "toggle" /\ req'[r] # req[r] /\ redis' # redis
                => req[r].pc = "t_committed") ]_vars

C10_Witness ==
    /\ flast.op = "toggle" /\ flast.result = "False"
    /\ table["x"] = "None"
    /\ redis[FlagKey("x")] = NoEntry
    /\ \A r \in Reqs : req[r].pc = "idle"

(* C11: create_flag on a name that has a committed record returns that     *)
(* record and changes neither the table nor the cache entry, whatever      *)
(* is_enabled it was called with (also when the record is found only by    *)
(* the failed commit); with no record the INSERT commits the given         *)
(* is_enabled, which is then written to the cache with TTL 60.             *)
C11_CreateIdempotent ==
    [][ \A r \in Reqs :
          /\ \A n \in Names, v \in Bools :
               CreateSelect(r, n, v) /\ table[n] # "None"
                 => /\ flast' # flast
                    /\ flast'.op = "create" /\ flast'.result = table[n]
                    /\ req'[r].pc = "idle"
                    /\ table' = table /\ redis' = redis
          /\ (CreateCommit(r)
                => /\ redis' = redis
                   /\ table' = IF table[req[r].name] = "None"
                               THEN [table EXCEPT ![req[r].name] = req[r].arg]
                               ELSE table)
          /\ (CreateFinish(r)
                => /\ table' = table
                   /\ IF req[r].ok
                      THEN /\ flast'.result = req[r].arg
                           /\ table[req[r].name] # "None"
                           /\ (connected /\ redisUp
                                 => redis' = [redis EXCEPT ![FlagKey(req[r].name)] =
                                        [val |-> JsonDumps(req[r].arg),
                                         exp |-> clock + 60]])
                      ELSE /\ flast'.result = table[req[r].name]
                           /\ redis' = redis) ]_vars

C11_Witness ==
    /\ connected
    /\ flast.op = "create" /\ flast.arg = "True" /\ flast.result = "False"
    /\ table["x"] = "False"
    /\ RedisGet(FlagKey("x")) = "false"
    /\ \A r \in Reqs : req[r].pc = "idle"

(* C12: under with_retry(max_attempts = n) a call whose operation raised   *)
(* k times and then returned has invoked it k + 1 <= n times and returns   *)
(* its result; a call whose operation raised n times has invoked it n      *)
(* times and raises the exception of the n-th invocation; the operation is *)
(* never invoked more than n times.                                        *)
C12_RetryInvocations ==
    [][ \A c \in Calls :
          /\ (OpReturns(c)
                => /\ call[c].invoked = call[c].failed + 1
                   /\ call[c].invoked <= call[c].max_attempts
                   /\ last'.kind = "result"
                   /\ last'.invoked = call[c].invoked)
          /\ (OpRaises(c) /\ call[c].failed + 1 < call[c].max_attempts
                => call'[c].pc = "sleep")
          /\ (OpRaises(c) /\ call[c].failed + 1 >= call[c].max_attempts
                => /\ call[c].invoked = call[c].max_attempts
                   /\ last'.kind = "error"
                   /\ last'.invoked = call[c].max_attempts
                   /\ last'.error = call[c].max_attempts)
          /\ (Wake(c) => call'[c].invoked <= call[c].max_attempts) ]_vars

C12_Witness ==
    /\ last.kind = "result"
    /\ last.invoked = 3
    /\ last.slept = 2
    /\ \A c \in Calls : call[c].pc = "idle"

(* C13: the sleep begun after the i-th failed attempt of a call lasts      *)
(* min(initial_delay * exponential_base^(i-1), max_delay); a call that     *)
(* ends after a attempts, returning or raising, has slept a - 1 times.     *)
C13_Backoff ==
    [][ \A c \in Calls :
          /\ (OpRaises(c) /\ call'[c].pc = "sleep"
                => /\ call'[c].wake - now =
                        Min(initial_delay * Pow(exponential_base, call[c].failed),
                            max_delay)
                   /\ call'[c].slept = call[c].failed + 1)
          /\ ((OpReturns(c) \/ OpRaises(c)) /\ call'[c].pc = "idle"
                => /\ last'.slept = last'.invoked - 1
                   /\ UNCHANGED now)
          /\ (Wake(c) => now >= call[c].wake) ]_vars

C13_Witness ==
    /\ call[1].pc = "sleep"
    /\ call[1].slept = 5
    /\ call[1].delay > max_delay
    /\ call[1].wake = now + max_delay

(* C14: when the last allowed attempt of an admitted call raises, the      *)
(* caller receives the exception of that attempt (not CircuitBreakerError, *)
(* not another exception), and the step that hands it over has recorded    *)
(* the failure on the breaker: failure_count is one higher and             *)
(* last_failure_time is the current time; this includes the failure that   *)
(* moves the breaker from CLOSED to OPEN.                                  *)
C14_FailureSurfacesUnchanged ==
    [][ \A c \in Calls :
          OpRaises(c) /\ call'[c].pc = "idle"
            => /\ last'.admitted
               /\ last'.kind = "error"
               /\ last'.error = call[c].invoked
               /\ last'.invoked = call[c].max_attempts
               /\ last'.recorded = 1
               /\ failure_count' = failure_count + 1
               /\ last_failure_time' = now
               /\ (state = "CLOSED" /\ failure_count + 1 >= failure_threshold
                     => state' = "OPEN") ]_vars

C14_Witness ==
    /\ last.kind = "error"
    /\ last.error = 3 /\ last.invoked = 3
    /\ last.recorded = 1
    /\ state = "OPEN"
    /\ failure_threshold = 2 /\ failure_count = 2 /\ consecFail = 2
    /\ last_failure_time = now

(* C15: the first reference to a breaker name registers one record, new    *)
(* and configured as the reference says; a later reference returns that    *)
(* record as it is (state and counters included) whatever configuration    *)
(* it passes; failure_threshold, recovery_timeout and half_open_max_calls  *)
(* of a registered record never change and no name leaves the registry.    *)
C15_Registry ==
    [][ /\ \A n \in BreakerNames, cfg \in Configs :
             GetCircuitBreaker(n, cfg[1], cfg[2], cfg[3])
               => /\ reply'.value = Record(n)'
                  /\ IF n \in registered
                     THEN Record(n)' = Record(n) /\ registered' = registered
                     ELSE /\ Record(n)' = NewRecord(cfg[1], cfg[2], cfg[3])
                          /\ registered' = registered \cup {n}
        /\ \A cfg \in Configs :
             WrapperCall(1, cfg[1], cfg[2], FALSE) /\ "x" \notin registered
               => /\ Record("x")' = NewRecord(cfg[1], cfg[2], DefaultHalfOpenMax)
                  /\ registered' = registered \cup {"x"}
        /\ \A n \in registered :
             /\ n \in registered'
             /\ Record(n)'.failure_threshold = Record(n).failure_threshold
             /\ Record(n)'.recovery_timeout = Record(n).recovery_timeout
             /\ Record(n)'.half_open_max_calls = Record(n).half_open_max_calls
      ]_vars

C15_Witness ==
    /\ reply.op = "get_circuit_breaker" /\ reply.name = "x"
    /\ reply.cfg = <<2, 2, 2>>
    /\ reply.value = Record("x")
    /\ failure_threshold = 1 /\ recovery_timeout = 1
    /\ half_open_max_calls = DefaultHalfOpenMax
    /\ state = "OPEN" /\ failure_count = 1
    /\ registered = BreakerNames

(* C16: get_circuit_health returns exactly one entry per registered name,  *)
(* holding that record's current state, failure_count and                  *)
(* last_failure_time, and changes no field of any record and not the set   *)
(* of registered names; an OPEN record whose recovery_timeout has elapsed  *)
(* is still OPEN afterwards.                                               *)
C16_HealthReadOnly ==
    [][ GetCircuitHealth
          => /\ DOMAIN reply'.value = registered
             /\ \A n \in registered :
                  reply'.value[n] =
                     [state |-> Record(n).state,
                      failures |-> Record(n).failure_count,
                      last_failure |-> Record(n).last_failure_time]
             /\ \A n \in BreakerNames : Record(n)' = Record(n)
             /\ registered' = registered
             /\ (state = "OPEN" /\ Elapsed >= recovery_timeout
                   => state' = "OPEN") ]_vars

C16_Witness ==
    /\ reply.op = "get_circuit_health"
    /\ registered = BreakerNames
    /\ DOMAIN reply.value = BreakerNames
    /\ state = "OPEN"
    /\ reply.at - last_failure_time >= recovery_timeout
    /\ reply.value["x"].state = "OPEN"
    /\ reply.value["x"].failures = failure_count
    /\ reply.value["x"].last_failure = last_failure_time
    /\ reply.value["y"].state = "CLOSED"

(* C17: while the layer has no client or the backend does not answer,      *)
(* every CacheLayer operation returns its safe default instead of raising: *)
(* get None, set False, delete False, invalidate_pattern 0; none of them   *)
(* changes a key.                                                          *)
C17_CacheDegrades ==
    [][ ~connected \/ ~redisUp
          => /\ \A k \in Keys :
                  /\ (CacheGetOp(k) => reply'.result = "None")
                  /\ (CacheDeleteOp(k)
                        => reply'.result = "False" /\ redis' = redis)
                  /\ \A v \in Values, ttl \in TTLs :
                       CacheSetOp(k, v, ttl)
                         => reply'.result = "False" /\ redis' = redis
             /\ \A p \in Patterns :
                  InvalidatePattern(p)
                    => reply'.result = 0 /\ redis' = redis ]_vars

C17_Witness ==
    /\ connected /\ ~redisUp
    /\ reply.cop = "invalidate_pattern" /\ reply.result = 0
    /\ reply.key = <<"*", "*">>
    /\ RedisKeys(<<"*", "*">>) = Keys

(* C18: a CacheLayer constructed without a client never gets one: from     *)
(* then on every get returns None and every set returns False and writes   *)
(* nothing, also once the backend answers again.                           *)
C18_DisconnectedForever ==
    [][ ~connected
          => /\ ~connected'
             /\ \A k \in Keys :
                  /\ (CacheGetOp(k) => reply'.result = "None")
                  /\ \A v \in Values, ttl \in TTLs :
                       CacheSetOp(k, v, ttl)
                         => reply'.result = "False" /\ redis' = redis ]_vars

C18_Witness ==
    /\ ~connected /\ redisUp /\ faulted
    /\ reply.cop = "set" /\ reply.result = "False"
    /\ reply.time > 0
    /\ \A k \in Keys : redis[k] = NoEntry

(* C19: a get(k) issued right after set(k, v, ttl) returned True (no time  *)
(* passed, the backend answering) returns v, for every value v that set    *)
(* accepts; a get(k) issued after delete(k) returned True returns None.    *)
C19_RoundTrip ==
    [][ \A k \in Keys :
          CacheGetOp(k) /\ connected /\ redisUp /\ reply.key = k
            => /\ (reply.cop = "set" /\ reply.result = "True"
                      /\ reply.time = clock
                    => reply'.result = reply.arg)
               /\ (reply.cop = "delete" /\ reply.result = "True"
                    => reply'.result = "None") ]_vars

(* C20: on a connected cache whose backend answers, delete(k) returns True *)
(* whether or not k is present, leaves k absent and every other key as it  *)
(* was; on an absent k it changes nothing, so a second delete(k) leaves    *)
(* the keys as the first one did.                                          *)
C20_DeleteIdempotent ==
    [][ \A k \in Keys :
          CacheDeleteOp(k) /\ connected /\ redisUp
            => /\ reply'.result = "True"
               /\ redis'[k] = NoEntry
               /\ \A k2 \in Keys \ {k} : redis'[k2] = redis[k2]
               /\ (RedisGet(k) = "nil" => redis' = redis) ]_vars

C20_Witness ==
    /\ connected /\ redisUp
    /\ reply.cop = "delete" /\ reply.key = FlagKey("x")
    /\ reply.result = "True" /\ reply.removed = 0
    /\ redis[FlagKey("x")] = NoEntry
    /\ redis[<<"user", "1">>].val = "[1, 2]"

(* C21: on a connected cache whose backend answers, invalidate_pattern     *)
(* removes every present key that matches the glob, leaves every other     *)
(* key as it was and returns the number of keys removed (0 when none       *)
(* matches); with the backend unavailable it returns 0 and removes         *)
(* nothing.                                                                *)
C21_InvalidatePattern ==
    [][ \A p \in Patterns :
          InvalidatePattern(p)
            => IF connected /\ redisUp
               THEN /\ \A k \in Keys :
                         IF Matches(k, p) THEN redis'[k] = NoEntry
                         ELSE redis'[k] = redis[k]
                    /\ reply'.result =
                         Cardinality({k \in Keys : /\ Matches(k, p)
                                                   /\ redis[k] # NoEntry})
               ELSE reply'.result = 0 /\ redis' = redis ]_vars

C21_Witness ==
    /\ connected /\ redisUp
    /\ reply.cop = "invalidate_pattern" /\ reply.key = <<"flag", "*">>
    /\ reply.result = 1
    /\ redis[FlagKey("x")] = NoEntry
    /\ redis[<<"user", "1">>] # NoEntry

\* the keyword arguments of a call as a set of (name, value) pairs
KwSet(kw) == {kw[i] : i \in 1..Len(kw)}

(* C22: two calls of _make_key with the same prefix, the same positional   *)
(* arguments in the same order and the same keyword arguments, in any      *)
(* insertion order, return the same key, whatever happened to the cache,   *)
(* the backend or the clock between them.                                  *)
C22_MakeKeyPure ==
    /\ reply.mop = "make_key"
    /\ reply.before.prefix = reply.prefix
    /\ reply.before.args = reply.args
    /\ KwSet(reply.before.kwargs) = KwSet(reply.kwargs)
    => reply.key = reply.before.key

C22_Witness ==
    /\ reply.mop = "make_key"
    /\ reply.prefix = "user" /\ reply.before.prefix = "user"
    /\ reply.args = <<1, 2>> /\ reply.before.args = <<1, 2>>
    /\ reply.kwargs = <<<<"b", 2>>, <<"a", 1>>>>
    /\ reply.before.kwargs = <<<<"a", 1>>, <<"b", 2>>>>
    /\ reply.key = reply.before.key
    /\ clock > 0 /\ ~redisUp

(* C23: on a breaker with failure_threshold = 2, recovery_timeout = 1 and  *)
(* half_open_max_calls = 1, calls issued one after another: the failure of *)
(* call 1 leaves CLOSED with failure_count = 1; the failure of call 2      *)
(* leaves OPEN; call 3, issued at once, is rejected (CircuitBreakerError   *)
(* or fallback) and the operation is not invoked; call 4, issued once 1 s  *)
(* has passed, is admitted with the state HALF_OPEN, and its success       *)
(* leaves CLOSED.                                                          *)
C23_EndToEndTrace ==
    [][ /\ (trace = "c1" /\ trace' = "f1"
              => state' = "CLOSED" /\ failure_count' = 1)
        /\ (trace = "c2" /\ trace' = "f2" => state' = "OPEN")
        /\ (trace = "f2" /\ trace' = "c3"
              => /\ ~AdmitStep
                 /\ last'.kind \in {"CircuitBreakerError", "fallback"}
                 /\ last'.invoked = 0
                 /\ state' = "OPEN")
        /\ (trace = "c3" /\ trace' = "c4"
              => AdmitStep /\ state' = "HALF_OPEN")
        /\ (trace = "c4" /\ trace' = "done"
              => state' = "CLOSED" /\ last'.kind = "result") ]_vars

C23_Witness ==
    /\ trace = "done"
    /\ <<failure_threshold, recovery_timeout, half_open_max_calls>> = <<2, 1, 1>>
    /\ state = "CLOSED"
    /\ last.kind = "result"

(* C24: every step that changes the state to HALF_OPEN leaves              *)
(* half_open_calls = 0; every step that changes the state to CLOSED leaves *)
(* failure_count = 0 and success_count = 0; the state is always one of     *)
(* CLOSED, OPEN, HALF_OPEN.                                                *)
C24_ResetOnTransition ==
    [][ /\ (state # "HALF_OPEN" /\ state' = "HALF_OPEN"
              => half_open_calls' = 0)
        /\ (state # "CLOSED" /\ state' = "CLOSED"
              => failure_count' = 0 /\ success_count' = 0)
        /\ state \in {"CLOSED", "OPEN", "HALF_OPEN"}
        /\ state' \in {"CLOSED", "OPEN", "HALF_OPEN"} ]_vars

C24_Witness ==
    /\ state = "HALF_OPEN"
    /\ half_open_calls = 0
    /\ windowAdmitted = 1
    /\ failure_count > failure_threshold
    /\ \E c \in Calls : call[c].pc = "op"

(* C25: while the state is CLOSED a recorded success sets failure_count to *)
(* 0, failure_count is the number of failures recorded since the last      *)
(* recorded success and is below failure_threshold; the state leaves       *)
(* CLOSED only by a recorded failure that is the failure_threshold-th in a *)
(* row.                                                                    *)
C25_ConsecutiveFailures ==
    [][ /\ (state = "CLOSED" /\ SuccessStep
              => failure_count' = 0 /\ state' = "CLOSED")
        /\ (state' = "CLOSED"
              => failure_count' = consecFail'
                 /\ failure_count' < failure_threshold)
        /\ (state = "CLOSED" /\ state' # "CLOSED"
              => FailureStep /\ consecFail' >= failure_threshold) ]_vars

C25_Witness ==
    /\ state = "CLOSED"
    /\ failure_threshold = 2
    /\ failure_count = 1 /\ consecFail = 1
    /\ half_open_calls >= 1
    /\ last.kind = "error"

\* steps of the routers: a gated request on flag n is answered
\* (requests that carry a valid token)
GliAnswered(n) == GetGliQuote(n, TRUE)
IdentityAnswered(n) ==
    http.name = n /\ \E ok \in BOOLEAN : StartIdentityRespond(ok)

(* C26: requests issued one after another: once the admin toggle of a      *)
(* flag has been answered with is_enabled = False, a request to the        *)
(* endpoint gated by that flag (GLI quote, identity start) is answered     *)
(* 503 and the feature is not run; once it has been answered with          *)
(* is_enabled = True the request is served: no 503.                        *)
C26_FeatureGating ==
    [][ \A n \in Names :
          GliAnswered(n) \/ IdentityAnswered(n)
            => /\ (http.toggled[n] = "False"
                     => http'.status = 503 /\ ~http'.ran)
               /\ (http.toggled[n] = "True" => http'.status # 503) ]_vars

\* the identity half of C26 alone
IdentityGated ==
    [][ \A n \in Names :
          IdentityAnswered(n)
            => /\ (http.toggled[n] = "False"
                     => http'.status = 503 /\ ~http'.ran)
               /\ (http.toggled[n] = "True"
                     => http'.status # 503 /\ http'.ran) ]_vars

IdentityGatedWitness ==
    /\ http.pc = "idle" /\ http.endpoint = "start_identity_verification"
    /\ http.toggled["x"] = "False" /\ http.status = 503

\* call c's outcome is recorded as a success
SuccessOf(c) == call[c].pc = "op" /\ OpReturns(c)

(* C27: the breaker goes HALF_OPEN -> CLOSED only when the calls admitted  *)
(* in that half-open window have all completed successfully: at the step   *)
(* to CLOSED no call admitted in the window is still in flight, and a      *)
(* success recorded in HALF_OPEN is that of a call admitted in the window  *)
(* (not of one admitted before the breaker opened).                        *)
C27_ClosesOnTrialCallsOnly ==
    [][ \A c \in Calls :
          state = "HALF_OPEN" /\ SuccessOf(c)
            => /\ call[c].trial
               /\ (state' = "CLOSED"
                     => \A d \in Calls : call'[d].pc # "idle" => ~call'[d].trial)
      ]_vars

(* C28: an admission check answered true that finds or leaves the breaker  *)
(* HALF_OPEN adds exactly one to half_open_calls (the check that moves     *)
(* OPEN -> HALF_OPEN leaves it at 1), and recording an outcome, success or *)
(* failure, leaves half_open_calls as it was.                              *)
C28_AdmissionCountsTrialCall ==
    [][ /\ (AdmitStep /\ state = "OPEN" => half_open_calls' = 1)
        /\ (AdmitStep /\ state = "HALF_OPEN"
              => half_open_calls' = half_open_calls + 1)
        /\ (SuccessStep \/ FailureStep
              => half_open_calls' = half_open_calls) ]_vars

\* a failed attempt of call c is followed by a sleep and another attempt
RetryStep(c) == OpRaises(c) /\ call'[c].pc = "sleep"

(* C29: through resilient the breaker sees one outcome per call: a failed  *)
(* attempt that is retried and the start of a later attempt leave the      *)
(* breaker record as it is (no failure recorded, no admission check); the  *)
(* failure of the last of max_attempts attempts adds exactly 1 to          *)
(* failure_count; a success, after failed attempts or not, is recorded     *)
(* once and records no failure; the breaker leaves OPEN only on the        *)
(* admission check of a call that has not started.                         *)
C29_OneOutcomePerCall ==
    [][ \A c \in Calls :
          /\ (RetryStep(c) \/ Wake(c) => UNCHANGED cbVars)
          /\ (OpRaises(c) /\ call'[c].pc = "idle"
                => /\ call[c].failed = call[c].max_attempts - 1
                   /\ failure_count' = failure_count + 1
                   /\ last'.recorded = 1)
          /\ (OpReturns(c)
                => /\ last'.recorded = 1 /\ last'.kind = "result"
                   /\ last'.invoked = call[c].failed + 1
                   /\ last_failure_time' = last_failure_time
                   /\ failure_count' <= failure_count
                   /\ (state = "CLOSED" => failure_count' = 0)
                   /\ (state = "HALF_OPEN" =>
                         \/ success_count' = success_count + 1
                         \/ state' = "CLOSED"))
          /\ (state = "OPEN" /\ state' # "OPEN" => call[c].pc = "idle") ]_vars

C29_Witness ==
    /\ last.kind = "result" /\ last.recorded = 1
    /\ last.invoked = 3 /\ last.slept = 2
    /\ state = "CLOSED" /\ failure_count = 0
    /\ last_failure_time = 0 /\ now > 0
    /\ failure_threshold = 1

(* C30: the fallback runs exactly for the calls that were denied admission *)
(* (and were given one): a denied call with a fallback ends with the       *)
(* fallback's result; an admitted call whose operation fails ends with the *)
(* operation's exception and not with the fallback, also when a fallback   *)
(* was supplied and when that failure opened the circuit; an admitted call *)
(* that returns ends with the operation's result.                          *)
C30_FallbackOnlyWhenDenied ==
    [][ \A c \in Calls :
          /\ (\A ma \in 1..MaxAttempts, fb \in BOOLEAN :
                StartCall(c, ma, fb)
                  => /\ (~Allowed /\ fb => last'.kind = "fallback"
                                           /\ ~last'.admitted)
                     /\ (Allowed \/ ~fb => last'.kind # "fallback" \/ last' = last))
          /\ (OpRaises(c) /\ call'[c].pc = "idle"
                => /\ last'.admitted
                   /\ last'.kind = "error"
                   /\ last'.error = call[c].invoked
                   /\ last'.fallback = call[c].fallback)
          /\ (OpReturns(c) \/ Cancel(c) => last'.admitted /\ last'.kind # "fallback")
          /\ (last' # last /\ last'.kind = "fallback"
                => ~Allowed /\ call' = call /\ ~last'.admitted) ]_vars

C30_Witness ==
    /\ last.kind = "error" /\ last.admitted /\ last.fallback
    /\ last.error = last.invoked
    /\ state = "OPEN" /\ consecFail = failure_threshold
    /\ failure_count = failure_threshold
    /\ last_failure_time = now

(* C31: an admission check answered false leaves state, failure_count,     *)
(* success_count, last_failure_time and half_open_calls as they were; the  *)
(* time at which the breaker will admit again is therefore not moved by    *)
(* rejected calls.                                                         *)
C31_DeniedChangesNothing ==
    [][ ~Allowed /\ StartStep
          => /\ state' = state
             /\ failure_count' = failure_count
             /\ success_count' = success_count
             /\ last_failure_time' = last_failure_time
             /\ half_open_calls' = half_open_calls
             /\ last_failure_time' + recovery_timeout'
                  = last_failure_time + recovery_timeout
             /\ ~last'.admitted ]_vars

C31_Witness ==
    /\ state = "OPEN" /\ recovery_timeout = 2
    /\ last_failure_time < now /\ Elapsed < recovery_timeout
    /\ ~last.admitted /\ last.kind = "CircuitBreakerError"
    /\ \A c \in Calls : call[c].pc = "idle"

\* the store-only reference: what the flag operations return when they
\* are computed from the feature_flags table alone
Unavailable == ~connected \/ ~redisUp
RefGetFlagState(n, d) == IF table[n] # "None" THEN table[n] ELSE d
RefToggleFlag(n) == IF table[n] # "None" THEN "True" ELSE "False"
RefCreateFlag(n, v) == IF table[n] # "None" THEN table[n] ELSE v

(* C32: flag requests issued one after another: while the cache is         *)
(* unavailable (not connected, or the backend failing) get_flag_state      *)
(* never answers from the cache and returns what the store-only reference  *)
(* returns (the record's is_enabled, else the default), no request writes  *)
(* the cache, and toggle_flag and create_flag return what the reference    *)
(* returns whether or not the cache is available.                          *)
C32_StoreOnlyWhenCacheDown ==
    [][ /\ \A n \in Names :
             Unavailable /\ GetStart(1, n)
               => req'[1].pc = "g_select" /\ flast' = flast
        /\ \A d \in Bools :
             GetFinish(1, d)
               => flast'.result = RefGetFlagState(req[1].name, d)
        /\ \A n \in Names, v \in Bools :
             /\ (ToggleUpdate(1, n, v)
                   => req'[1].ok = (RefToggleFlag(n) = "True"))
             /\ (CreateSelect(1, n, v) /\ table[n] # "None"
                   => flast'.result = RefCreateFlag(n, v) /\ table' = table)
             /\ (CreateSelect(1, n, v) /\ table[n] = "None"
                   => req'[1].arg = RefCreateFlag(n, v))
        /\ (ToggleFinish(1)
              => /\ flast'.result = (IF req[1].ok THEN "True" ELSE "False")
                 /\ (req[1].ok => table[req[1].name] = req[1].arg))
        /\ (CreateFinish(1)
              => flast'.result = req[1].arg
                 /\ table[req[1].name] = req[1].arg)
        /\ (Unavailable /\ req' # req => redis' = redis) ]_vars

C32_Witness ==
    /\ connected /\ ~redisUp
    /\ redis[FlagKey("x")].val = "true" /\ clock < redis[FlagKey("x")].exp
    /\ table["x"] = "False"
    /\ flast.op = "get" /\ flast.result = "False"

(* C33: cached(prefix, ttl) is cache-aside: with a non-null entry under    *)
(* the call's key the function is not invoked and the decoded entry is     *)
(* returned, falsy or not; on a miss the function is invoked once, its     *)
(* result returned and, unless None, stored under the key with the ttl;    *)
(* with the cache unavailable every call invokes the function, returns     *)
(* its result and stores nothing.                                          *)
C33_CacheAside ==
    [][ /\ \A k \in Keys, ttl \in TTLs :
             CachedStart(k, ttl)
               => /\ redis' = redis
                  /\ IF ~Unavailable /\ RedisGet(k) \notin {"nil", "null"}
                     THEN /\ ~reply'.pending /\ reply'.invoked = 0
                          /\ reply'.value = JsonLoads(RedisGet(k))
                     ELSE reply'.pending /\ reply'.invoked = 1
        /\ \A v \in Values :
             CachedFinish(v)
               => /\ reply'.value = v /\ reply'.invoked = 1
                  /\ ~reply'.pending
                  /\ redis' = IF v # "None" /\ ~Unavailable
                              THEN [redis EXCEPT ![reply.wkey] =
                                      [val |-> JsonDumps(v),
                                       exp |-> clock + reply.wttl]]
                              ELSE redis ]_vars

C33_Witness ==
    /\ connected /\ redisUp
    /\ reply.wop = "cached" /\ reply.hit /\ reply.invoked = 0
    /\ reply.value = "list:[]"
    /\ RedisGet(reply.wkey) = "[]"

(* C34: flag requests issued one after another over a backend that may    *)
(* lose writes: every flag: entry is written with a TTL of 60 s, so an     *)
(* entry in the cache is never more than 60 s from its expiry; a read that *)
(* returns a value other than the record's is a cache hit on an entry      *)
(* written at most 60 s before, and a read that finds no live entry        *)
(* returns the record's is_enabled.                                        *)
C34_StalenessBoundedByTTL ==
    [][ \A n \in Names :
          /\ (redis[FlagKey(n)].val # "nil"
                => redis[FlagKey(n)].exp <= clock + 60)
          /\ (redis'[FlagKey(n)] # redis[FlagKey(n)]
                /\ redis'[FlagKey(n)].val # "nil"
                => redis'[FlagKey(n)].exp = clock + 60)
          /\ (GetHitStep(1, n) /\ table[n] # "None"
                /\ flast'.result # table[n]
                => /\ clock < redis[FlagKey(n)].exp
                   /\ redis[FlagKey(n)].exp - 60 <= clock)
          /\ (GetStart(1, n) /\ RedisGet(FlagKey(n)) = "nil"
                => req'[1].pc = "g_select")
          /\ (\A d \in Bools :
                GetFinish(1, d) /\ req[1].name = n /\ table[n] # "None"
                  => flast'.result = table[n]) ]_vars

C34_Witness ==
    /\ connected /\ redisUp /\ faulted
    /\ table["x"] = "False"
    /\ RedisGet(FlagKey("x")) = "true"
    /\ flast.op = "get" /\ flast.result = "True"
    /\ clock > 0

\* no flag operation is in progress
Quiescent == \A r \in Reqs : req[r].pc = "idle"

(* C35: whenever no flag operation is in progress and the cache is         *)
(* connected, an entry present under flag:name holds the is_enabled of the *)
(* record of that name, whatever the interleaving of the concurrent        *)
(* toggle_flag calls was.                                                  *)
C35_CacheMirrorsStore ==
    Quiescent /\ connected
      => \A n \in Names :
           RedisGet(FlagKey(n)) # "nil"
             => JsonLoads(RedisGet(FlagKey(n))) = table[n]

(* C36: the breaker leaves OPEN only by an admission check made when       *)
(* recovery_timeout has passed since last_failure_time, and then to        *)
(* HALF_OPEN; an outcome recorded while OPEN (of a call admitted earlier)  *)
(* leaves the state OPEN: a success leaves last_failure_time as it is, a   *)
(* failure sets it to the current time, from which the timeout is then     *)
(* measured.                                                               *)
C36_OnlyAdmissionLeavesOpen ==
    [][ state = "OPEN"
          => /\ (state' # "OPEN"
                   => /\ StartStep /\ AdmitStep
                      /\ Elapsed >= recovery_timeout
                      /\ state' = "HALF_OPEN")
             /\ (SuccessStep
                   => state' = "OPEN"
                      /\ last_failure_time' = last_failure_time)
             /\ (FailureStep
                   => /\ state' = "OPEN"
                      /\ last_failure_time' = now
                      /\ (recovery_timeout > 0 => ~Allowed')) ]_vars

C36_Witness ==
    /\ state = "OPEN"
    /\ last.kind = "error"
    /\ failure_count = failure_threshold + 1
    /\ last_failure_time = now /\ now > 0
    /\ \A c \in Calls : call[c].pc = "idle"

Admission == \E c \in Calls, fb \in BOOLEAN : StartCall(c, 1, fb) /\ Allowed
Unsuccessful == \E c \in Calls : FailsInTime(c) \/ Cancel(c)

(* C38: with half_open_max_calls >= 1, while time advances, callers keep   *)
(* requesting admission and admitted calls complete: again and again a     *)
(* call is admitted; and if from some point on every admitted call         *)
(* succeeds, the breaker is eventually CLOSED for good.                    *)
C38_NeverStuck ==
    /\ []<><<Admission>>_vars
    /\ (<>[][~Unsuccessful]_vars => <>[](state = "CLOSED"))

C38_Witness ==
    /\ state = "CLOSED" /\ last.kind = "result"
    /\ half_open_calls = half_open_max_calls
    /\ failure_count = 0 /\ trialSucc >= half_open_max_calls
    /\ now = MaxTime

(* C39: concurrent create_flag calls on one name: the first commit inserts *)
(* the record and no later commit changes it; the call whose commit failed *)
(* returns the committed record's is_enabled, leaves the record and the    *)
(* cache as they are; the entry under flag:name, when there is one, holds  *)
(* the is_enabled of the committed record.                                 *)
C39_ConcurrentCreates ==
    [][ /\ \A r \in Reqs :
             /\ (CreateCommit(r)
                   => /\ table'[req[r].name] # "None"
                      /\ req'[r].ok = (table[req[r].name] = "None")
                      /\ (table[req[r].name] # "None" => table' = table))
             /\ (CreateFinish(r) /\ ~req[r].ok
                   => /\ flast'.result = table[req[r].name]
                      /\ table' = table /\ redis' = redis)
             /\ (CreateFinish(r) /\ req[r].ok
                   => flast'.result = req[r].arg
                      /\ table[req[r].name] = req[r].arg)
        /\ \A n \in Names :
             redis'[FlagKey(n)].val # "nil"
               => JsonLoads(redis'[FlagKey(n)].val) = table'[n] ]_vars

C39_Witness ==
    /\ connected
    /\ table["x"] = "False"
    /\ redis[FlagKey("x")] = [val |-> "false", exp |-> 60]
    /\ flast.op = "create" /\ flast.arg = "False" /\ flast.result = "False"
    /\ \E r \in Reqs : /\ req[r].pc = "c_committed" /\ ~req[r].ok
                       /\ req[r].arg = "True"

====
